---- MODULE Spec2Model ----
(***************************************************************************)
(* Model of the interview server's session and media-pipeline engine:     *)
(*   - the session registry and admission      (src/signaling/session.py) *)
(*   - the signaling receive loop and ICE      (src/signaling/session.py, *)
(*                                              src/signaling/webrtc.py)  *)
(*   - the push-to-talk capture buffer         (src/signaling/ptt.py,     *)
(*                                              src/signaling/webrtc.py)  *)
(*   - the playback track                      (src/speech/audio_track.py)*)
(*   - the multipart upload client             (src/storage/s3.py)        *)
(*   - the recorder                            (src/speech/recorder.py)   *)
(*   - one answer turn                         (src/signaling/ptt.py,     *)
(*                                   src/signaling/interview_handler.py)  *)
(*   - session teardown                        (src/signaling/session.py, *)
(*                                              src/signaling/webrtc.py)  *)
(* Each component has its own specification over the shared variables;    *)
(* the variables of the other components keep their constructed values.   *)
(***************************************************************************)
EXTENDS Integers, Sequences, FiniteSets, TLC

VARIABLES
    \* --- session registry (signaling/session.py) ---
    sessions,           \* _sessions: the set of room ids that are keys of the dict
    thread,             \* per room: the state of the thread started by start(room)
    \* --- signaling receive loop and ICE (session.py _session, webrtc.py) ---
    ws_in,              \* frames sent to the websocket and not yet received by the loop
    ws_sent,            \* number of frames the peer side has sent so far
    sig_pc,             \* position of _session: "recv", "offer", "answer", "done", "failed"
    session,            \* the local variable `session`: 0 (None) or the number of the session
    remote_desc_set,    \* WebRTCSession._remote_desc_set
    pending_remote_ice, \* WebRTCSession._pending_remote_ice (candidate ids)
    peer_log,           \* calls that reached the peer connection, in order
    ice_arrived,        \* history: ICE candidates received by the loop, in order
    answers,            \* number of WEBRTC_ANSWER frames sent
    \* --- push-to-talk capture (ptt.py, webrtc.py _on_track, datachannel.py) ---
    ptt_active,         \* _ptt_active
    audio_frames,       \* _audio_frames: sequence of byte strings
    audio_buffer_size,  \* _audio_buffer_size
    audio_format,       \* <<_audio_sample_rate, _audio_channels>>
    ptt_recording_start,\* _ptt_recording_start
    ptt_timeout_timer,  \* _ptt_timeout_timer is armed
    now,                \* the event loop's clock, in seconds
    dc_open,            \* the control channel exists and is open
    dc_out,             \* messages sent on the control channel, in order
    stt_tasks,          \* _process_stt tasks scheduled and not yet run
    stt_inflight,       \* _process_stt tasks suspended in `await stt_transcribe`
    stt_calls,          \* inputs handed to the transcription function, in order
    ptt_event,          \* history: the last capture event handled
    n_frames,           \* number of audio frames received so far
    n_msgs,             \* number of control messages received so far
    \* --- playback track (speech/audio_track.py) ---
    queue,              \* TTSAudioTrack._queue
    done_event,         \* TTSAudioTrack._done_event: 0 (None) or an event id
    events_set,         \* the asyncio.Event objects that are set
    frame_count,        \* TTSAudioTrack._frame_count
    plays,              \* per play() call: its position and its input
    dequeued,           \* history: what recv has taken from the queue, in order
    last_frame,         \* the payload of the frame the last recv() returned
    \* --- multipart upload client (storage/s3.py) ---
    s3_upload_id,       \* _upload_id is set
    s3_buf,             \* _buf
    s3_parts,           \* _parts
    s3_part_number,     \* _part_number
    s3_store,           \* remote side: the parts uploaded, in upload order
    s3_remote,          \* remote side: "none", "open", "completed", "aborted"
    s3_final,           \* remote side: the part list of the finalize request
    s3_written,         \* history: the byte strings written, concatenated
    s3_last,            \* history: the last client call and how it ended
    s3_writes,          \* number of write() calls so far
    \* --- recorder (speech/recorder.py) ---
    rec_running,        \* InterviewRecorder._running
    rec_buf,            \* _buf: the bytes the muxer has written
    rec_buf_flushed,    \* _buf_flushed
    rec_video_pts,      \* _video_pts
    rec_audio_pts,      \* _audio_pts
    rec_v_pending,      \* frames the video encoder holds and has not emitted
    rec_a_pending,      \* frames the audio encoder holds and has not emitted
    rec_muxes,          \* number of packets muxed so far
    rec_frames,         \* history: the timestamps given to frames, in order
    rec_finalize,       \* history: how often each step of stop() was performed
    rec_last,           \* history: the last recorder call, what it returned, and
                        \* for push_video the timestamp the frame arrived with
    rec_ops,            \* number of recorder calls so far
    \* --- session teardown for one room (session.py, webrtc.py cleanup) ---
    room_session,       \* _sessions.get(room_id): 0 (absent) or a session object
    objs,               \* number of WebRTCSession objects created so far
    sess,               \* per session object: the fields cleanup() touches, and
                        \* the terminal message it sent on its control channel
    remover,            \* per caller of remove_session: its position and local `session`
    lc_pc,              \* position of _session: "recv", "offer", "wait_closed", "done"
    lc_session,         \* the local `session` of _session
    obtained,           \* history: per object, the pops that returned it
    cleanup_calls,      \* history: per object, the cleanup() calls made on it
    teardowns,          \* history: per object, the cleanup() calls that passed the guard
    offer_failed,       \* history: the objects whose handle_offer raised
    overwritten,        \* history: the objects replaced in the registry by a later offer
    life_ops,           \* number of remove_session and cleanup calls so far
    \* --- one answer turn (ptt.py _process_stt, interview_handler.py) ---
    turn_variant,       \* which package runs: "signaling" or "ai_bot"
    turn_pc,            \* position of the turn's task
    turn_out,           \* messages sent on the control channel during the turn
    turn_failed,        \* history: the collaborators that raised during the turn
    turn_escaped,       \* history: tasks that ended with an exception
    turn_finished,      \* _interview.finished
    turn_timer,         \* _ptt_timeout_timer: "none", "armed", "cancelled"
    turn_removal,       \* _deferred_remove_session: "none", "scheduled", "done"
    turn_n,             \* number of turns started so far
    \* --- the registry lock (session.py) ---
    sessions_lock,      \* _sessions_lock: 0 (free) or the thread that holds it
    lk_pc,              \* per thread: the function it runs and its position in it
    lk_entry,           \* whether _sessions holds the room
    lk_unlocked,        \* history: accesses of _sessions made without the lock
    lk_teardown_locked, \* history: cleanup() was called by a thread holding the lock
    lk_ops,             \* number of calls started so far
    \* --- handle_offer and handle_ice of one session as coroutines (webrtc.py) ---
    ho_pc,              \* handle_offer: "none", "setRemote", "pending", "sdp", "poll",
                        \* "returned" or "raised"
    ho_idx,             \* position of handle_offer in its loop over _pending_remote_ice
    ho_polls,           \* number of asyncio.sleep(0.05) calls of the gathering wait
                        \* in progress
    ho_remote_desc_set, \* _remote_desc_set
    ho_pending_remote_ice, \* _pending_remote_ice: the calls buffered, in order
    ice_gathering_state,   \* peer.iceGatheringState
    ice_task,           \* per handle_ice call, in call order: its candidate and where it is
    ho_log,             \* history: calls on the peer connection and frames sent, in order
    ho_clears,          \* history: number of _pending_remote_ice.clear() calls
    \* --- the no-response timer (interview_handler.py, ptt.py) ---
    nr_ptt_active,      \* _ptt_active
    nr_timer,           \* _ptt_timeout_timer: 0 (None) or a timer handle
    nr_handles,         \* the handles made by call_later: "live", "cancelled" or "fired"
    nr_speaks,          \* the _speak calls: what is spoken and where the call is
    nr_cleaned_up,      \* _cleaned_up
    nr_deferred,        \* _deferred_remove_session is scheduled
    nr_done_sent,       \* history: number of AI_DONE messages sent
    \* --- the timers and the end of one session (datachannel.py, interview_handler.py) ---
    dc_opens,           \* number of datachannel events handled so far
    interview_timer,    \* _interview_timer: 0 (None) or a timer handle
    interview_handles,  \* the handles made by _start_interview_timer: "live", "cancelled" or "fired"
    ended_signals,      \* history: number of interview_ended signals sent
    late_timeout,       \* history: a timeout handler ran after cleanup
    \* --- connection states and recorders of the sessions (webrtc.py, interview_handler.py) ---
    conn_state,         \* per session object: the connectionState last reported to its handler
    ws_closing,         \* stomp_ws.close() is scheduled and the loop has not seen it
    recorder,           \* per session object: its _recorder, "none" or "running"
    \* --- the answer tasks of a session (ptt.py, interview_handler.py, interview/interviewer.py) ---
    iv_state,           \* _interview: "none", "first" (first question awaited), "asked"
    question_count,     \* InterviewSession.question_count
    iv_finished,        \* InterviewSession.finished
    ans_pc,             \* per answer task: "idle", "stt", "question", "closing", "done"
    sent_numbers,       \* history: the questionNumber values sent in AI_QUESTION
    closings            \* history: the number of closing turns generated

regVars == <<sessions, thread>>
iceVars == <<ws_in, ws_sent, sig_pc, session, remote_desc_set, pending_remote_ice,
             peer_log, ice_arrived, answers>>
pttVars == <<ptt_active, audio_frames, audio_buffer_size, audio_format,
             ptt_recording_start, ptt_timeout_timer, now, dc_open, dc_out,
             stt_tasks, stt_inflight, stt_calls, ptt_event, n_frames, n_msgs>>
trackVars == <<queue, done_event, events_set, frame_count, plays, dequeued, last_frame>>
s3Vars == <<s3_upload_id, s3_buf, s3_parts, s3_part_number, s3_store, s3_remote,
            s3_final, s3_written, s3_last, s3_writes>>
recVars == <<rec_running, rec_buf, rec_buf_flushed, rec_video_pts, rec_audio_pts,
             rec_v_pending, rec_a_pending, rec_muxes, rec_frames, rec_finalize,
             rec_last, rec_ops>>
lifeVars == <<room_session, objs, sess, remover, lc_pc, lc_session, obtained,
              cleanup_calls, teardowns, offer_failed, overwritten, life_ops>>
turnVars == <<turn_variant, turn_pc, turn_out, turn_failed, turn_escaped, turn_finished,
              turn_timer, turn_removal, turn_n>>
lockVars == <<sessions_lock, lk_pc, lk_entry, lk_unlocked, lk_teardown_locked, lk_ops>>
hoVars == <<ho_pc, ho_idx, ho_polls, ho_remote_desc_set, ho_pending_remote_ice,
            ice_gathering_state, ice_task, ho_log, ho_clears>>
nrVars == <<nr_ptt_active, nr_timer, nr_handles, nr_speaks, nr_cleaned_up, nr_deferred,
            nr_done_sent>>
stVars == <<dc_opens, interview_timer, interview_handles, ended_signals, late_timeout>>
connVars == <<conn_state, ws_closing, recorder>>
ansVars == <<iv_state, question_count, iv_finished, ans_pc, sent_numbers, closings>>
vars == <<regVars, iceVars, pttVars, trackVars, s3Vars, recVars, lifeVars, turnVars,
          lockVars, hoVars, nrVars,
          stVars,
          connVars,
          ansVars>>

----------------------------------------------------------------------------
(* Byte strings.  A byte string is a sequence of runs; a run names a       *)
(* source (an input buffer, or "zero" for zero bytes), an offset into it  *)
(* and a length.  Adjacent runs that continue each other are merged, so   *)
(* two byte strings are equal exactly when they hold the same bytes of    *)
(* the same inputs in the same order.                                      *)

Run(k, id, off, len) == [k |-> k, id |-> id, off |-> off, len |-> len]

Data(k, id, len) == IF len = 0 THEN <<>> ELSE <<Run(k, id, 0, len)>>

Zeros(len) == IF len = 0 THEN <<>> ELSE <<Run("zero", 0, 0, len)>>

RECURSIVE BLen(_)
BLen(b) == IF b = <<>> THEN 0 ELSE Head(b).len + BLen(Tail(b))

Continues(r1, r2) ==
    /\ r1.k = r2.k
    /\ r1.id = r2.id
    /\ \/ r1.k = "zero"
       \/ r1.off + r1.len = r2.off

\* a + b
BCat(a, b) ==
    IF a = <<>> THEN b
    ELSE IF b = <<>> THEN a
    ELSE LET l == a[Len(a)]
             f == Head(b)
         IN  IF Continues(l, f)
             THEN SubSeq(a, 1, Len(a) - 1)
                  \o <<Run(l.k, l.id, l.off, l.len + f.len)>>
                  \o Tail(b)
             ELSE a \o b

\* b[:n]
RECURSIVE BTake(_, _)
BTake(b, n) ==
    IF n <= 0 \/ b = <<>> THEN <<>>
    ELSE LET h == Head(b)
         IN  IF h.len <= n
             THEN <<h>> \o BTake(Tail(b), n - h.len)
             ELSE <<Run(h.k, h.id, h.off, n)>>

\* b[n:]
RECURSIVE BDrop(_, _)
BDrop(b, n) ==
    IF b = <<>> THEN <<>>
    ELSE IF n <= 0 THEN b
    ELSE LET h == Head(b)
         IN  IF h.len <= n
             THEN BDrop(Tail(b), n - h.len)
             ELSE <<Run(h.k, h.id, IF h.k = "zero" THEN 0 ELSE h.off + n, h.len - n)>>
                  \o Tail(b)

\* b[i:j]
BSlice(b, i, j) == BTake(BDrop(b, i), j - i)

\* the concatenation of a sequence of byte strings
RECURSIVE BJoin(_)
BJoin(bs) == IF bs = <<>> THEN <<>> ELSE BCat(Head(bs), BJoin(Tail(bs)))

CeilDiv(a, b) == (a + b - 1) \div b

----------------------------------------------------------------------------
(* Session registry: start, the WEBRTC_OFFER branch of _session, and       *)
(* remove_session.  _sessions_lock makes each `with` block atomic with    *)
(* respect to the others, so each block is one step of the model; what    *)
(* start() does after releasing the lock (spawning the thread, returning  *)
(* True) reads or writes nothing shared.                                   *)

MAX_CONCURRENT_SESSIONS == 10

NumRooms == 11

Rooms == 1..NumRooms

\* the capacity check of start(), made under the lock
AtCapacity == Cardinality(sessions) >= MAX_CONCURRENT_SESSIONS

\* start(room_id): refused at capacity; otherwise the session thread is
\* started and True is returned.  The registry is not written.
Start(r) ==
    /\ thread[r] = "none"
    /\ IF AtCapacity
       THEN UNCHANGED thread
       ELSE thread' = [thread EXCEPT ![r] = "awaiting_offer"]
    /\ UNCHANGED sessions

\* _session: a WEBRTC_OFFER frame arrives; the session is created and put
\* into the registry under the lock.
RegisterOnOffer(r) ==
    /\ thread[r] \in {"awaiting_offer", "in_session"}
    /\ sessions' = sessions \cup {r}
    /\ thread' = [thread EXCEPT ![r] = "in_session"]

\* remove_session(room_id): pop under the lock, then cleanup of the popped
\* session, which sets its closed event and so lets its thread finish.
RemoveSession(r) ==
    /\ r \in sessions
    /\ sessions' = sessions \ {r}
    /\ thread' = [thread EXCEPT ![r] = "none"]

\* the signaling connection drops before any offer arrived: _session ends
DropBeforeOffer(r) ==
    /\ thread[r] = "awaiting_offer"
    /\ thread' = [thread EXCEPT ![r] = "none"]
    /\ UNCHANGED sessions

InitRegistry ==
    /\ sessions = {}
    /\ thread = [r \in Rooms |-> "none"]

RegistryOnly == UNCHANGED <<iceVars, pttVars, trackVars, s3Vars, recVars, lifeVars, turnVars, lockVars, hoVars, nrVars, stVars, connVars, ansVars>>

NextRegistry ==
    \/ \E r \in Rooms : Start(r) /\ RegistryOnly
    \/ \E r \in Rooms : RegisterOnOffer(r) /\ RegistryOnly
    \/ \E r \in Rooms : RemoveSession(r) /\ RegistryOnly
    \/ \E r \in Rooms : DropBeforeOffer(r) /\ RegistryOnly

----------------------------------------------------------------------------
(* The signaling receive loop of _session for one room, with handle_offer  *)
(* and handle_ice.  The loop awaits each handler, so no frame is taken    *)
(* from the websocket while a handler is suspended.                        *)

MaxWsFrames == 4

\* the frames a peer can send: a body that is a JSON object with type
\* WEBRTC_OFFER, ICE_CANDIDATE or another type; a frame without the blank
\* line; a frame with an empty body; a body that is not JSON; a JSON body
\* that is falsy ({}, [], 0, null, ""); a JSON body that is a non-empty
\* list or string, a non-zero number or true
FrameTypes == {"WEBRTC_OFFER", "ICE_CANDIDATE", "OTHER", "NO_SEPARATOR", "EMPTY_BODY",
               "NOT_JSON", "JSON_FALSY", "JSON_NOT_OBJECT"}

None == [type |-> "None", id |-> 0, ok |-> FALSE]

\* stomp.parse_body: None for a frame without the blank line, with an empty
\* body or with a body that json.loads rejects, else the decoded value
parse_body(f) ==
    IF f.type \in {"NO_SEPARATOR", "EMPTY_BODY", "NOT_JSON"} THEN None ELSE f

\* `if not data`
Falsy(data) == data = None \/ data.type = "JSON_FALSY"

\* the peer side sends a frame; an ICE candidate string is well-formed or not
WsSend ==
    /\ sig_pc \notin {"done", "failed"}
    /\ ws_sent < MaxWsFrames
    /\ \E t \in FrameTypes, ok \in BOOLEAN :
        /\ (t # "ICE_CANDIDATE") => ok
        /\ ws_in' = Append(ws_in, [type |-> t, id |-> ws_sent + 1, ok |-> ok])
    /\ ws_sent' = ws_sent + 1
    /\ UNCHANGED <<sig_pc, session, remote_desc_set, pending_remote_ice, peer_log,
                   ice_arrived, answers>>

\* _parse_candidate, then peer.addIceCandidate: a candidate that fails to
\* parse raises before the peer connection is reached
ApplyCandidate(log, s, c) ==
    IF c.ok THEN Append(log, [op |-> "addIceCandidate", session |-> s, id |-> c.id])
    ELSE log

\* handle_offer, the loop over _pending_remote_ice
RECURSIVE ApplyPending(_, _, _)
ApplyPending(log, s, pending) ==
    IF pending = <<>> THEN log
    ELSE ApplyPending(ApplyCandidate(log, s, Head(pending)), s, Tail(pending))

\* handle_ice(payload)
HandleIce(c) ==
    IF ~remote_desc_set
    THEN /\ pending_remote_ice' = Append(pending_remote_ice, c)
         /\ UNCHANGED peer_log
    ELSE /\ peer_log' = ApplyCandidate(peer_log, session, c)
         /\ UNCHANGED pending_remote_ice

\* one iteration of `async for raw in ws`, up to the handler's first await
RecvFrame ==
    /\ sig_pc = "recv"
    /\ ws_in # <<>>
    /\ ws_in' = Tail(ws_in)
    /\ LET data == parse_body(Head(ws_in))
       IN  IF Falsy(data) \/ data.type = "OTHER"
           THEN UNCHANGED <<sig_pc, session, remote_desc_set, pending_remote_ice,
                            peer_log, ice_arrived>>
           ELSE IF data.type = "JSON_NOT_OBJECT"
           THEN \* data.get raises AttributeError, which leaves the loop
                /\ sig_pc' = "failed"
                /\ UNCHANGED <<session, remote_desc_set, pending_remote_ice, peer_log,
                               ice_arrived>>
           ELSE IF data.type = "WEBRTC_OFFER"
           THEN \* session = WebRTCSession(room_id, ws); handle_offer starts
                /\ session' = session + 1
                /\ remote_desc_set' = FALSE
                /\ pending_remote_ice' = <<>>
                /\ sig_pc' = "offer"
                /\ UNCHANGED <<peer_log, ice_arrived>>
           ELSE \* ICE_CANDIDATE
                /\ ice_arrived' = Append(ice_arrived,
                                    [id |-> data.id, ok |-> data.ok,
                                     before_answer |-> answers = 0])
                /\ IF session # 0
                   THEN HandleIce(data)
                   ELSE UNCHANGED <<pending_remote_ice, peer_log>>
                /\ UNCHANGED <<sig_pc, session, remote_desc_set>>
    /\ UNCHANGED <<ws_sent, answers>>

\* handle_offer: setRemoteDescription returns or raises; on return the flag
\* is set and the buffered candidates are applied and cleared
OfferRemoteSet ==
    /\ sig_pc = "offer"
    /\ \E ok \in BOOLEAN :
        IF ok
        THEN /\ remote_desc_set' = TRUE
             /\ peer_log' = ApplyPending(
                    Append(peer_log, [op |-> "setRemoteDescription",
                                      session |-> session, id |-> 0]),
                    session, pending_remote_ice)
             /\ pending_remote_ice' = <<>>
             /\ sig_pc' = "answer"
        ELSE /\ sig_pc' = "failed"
             /\ UNCHANGED <<remote_desc_set, peer_log, pending_remote_ice>>
    /\ UNCHANGED <<ws_in, ws_sent, session, ice_arrived, answers>>

\* handle_offer: addTrack, createAnswer, setLocalDescription, the gathering
\* wait and the WEBRTC_ANSWER frame; any of the calls may raise
OfferAnswer ==
    /\ sig_pc = "answer"
    /\ \E ok \in BOOLEAN :
        IF ok
        THEN /\ answers' = answers + 1
             /\ sig_pc' = "recv"
        ELSE /\ sig_pc' = "failed"
             /\ UNCHANGED answers
    /\ UNCHANGED <<ws_in, ws_sent, session, remote_desc_set, pending_remote_ice,
                   peer_log, ice_arrived>>

\* the websocket closes: `async for` ends (ConnectionClosed is caught)
WsClosed ==
    /\ sig_pc = "recv"
    /\ sig_pc' = "done"
    /\ UNCHANGED <<ws_in, ws_sent, session, remote_desc_set, pending_remote_ice,
                   peer_log, ice_arrived, answers>>

InitIce ==
    /\ ws_in = <<>>
    /\ ws_sent = 0
    /\ sig_pc = "recv"
    /\ session = 0
    /\ remote_desc_set = FALSE
    /\ pending_remote_ice = <<>>
    /\ peer_log = <<>>
    /\ ice_arrived = <<>>
    /\ answers = 0

IceOnly == UNCHANGED <<regVars, pttVars, trackVars, s3Vars, recVars, lifeVars, turnVars, lockVars, hoVars, nrVars, stVars, connVars, ansVars>>

NextIce ==
    \/ WsSend /\ IceOnly
    \/ RecvFrame /\ IceOnly
    \/ OfferRemoteSet /\ IceOnly
    \/ OfferAnswer /\ IceOnly
    \/ WsClosed /\ IceOnly

----------------------------------------------------------------------------
(* Push-to-talk capture: the body of the _on_track loop, the control       *)
(* channel's message handler, _start_recording, _stop_recording and       *)
(* _process_stt.  All of it runs on the session's event loop: a handler   *)
(* runs without interruption up to its next await.                         *)

MAX_AUDIO_BUFFER_BYTES == 18 * 1024 * 1024

PTT_MAX_RECORDING_DURATION == 3 * 60

WAV_HEADER_BYTES == 44

MaxAudioFrames == 3

MaxDcMsgs == 2

MaxTicks == 2

TickSeconds == 90

\* len(frame.to_ndarray().tobytes()) of the frames the track delivers
FrameLens == {1920, 14400, 9 * 1024 * 1024}

\* <<frame.sample_rate, len(frame.layout.channels)>>
FrameFormats == {<<48000, 1>>, <<48000, 2>>}

DcMsgTypes == {"PTT_START", "PTT_END", "OTHER"}

\* send_dc(data): sent only while the channel exists and is open
send_dc(out, open, msg) == IF open THEN Append(out, msg) ELSE out

\* a faulty container that holds the last frame only
frames_to_wav_LastFrame(frames, fmt) ==
    [nchannels |-> fmt[2], sampwidth |-> 2, framerate |-> fmt[1],
     frames |-> IF frames = <<>> THEN <<>> ELSE frames[Len(frames)]]

\* _frames_to_wav: one container with the format fields and the frames' bytes
\* in list order
frames_to_wav(frames, fmt) ==
    [nchannels |-> fmt[2], sampwidth |-> 2, framerate |-> fmt[1],
     frames |-> BJoin(frames)]

\* len(wav_bytes)
WavLen(w) == WAV_HEADER_BYTES + BLen(w.frames)

\* int(sample_rate * channels * 2 * 0.15)
MinBytes(fmt) == (fmt[1] * fmt[2] * 2 * 15) \div 100

\* a faulty guard that compares the counter alone with the cap
FitsBuffer_IgnoresFrame(size, raw) == size <= MAX_AUDIO_BUFFER_BYTES

\* the guard of the append in _on_track
FitsBuffer(size, raw) == size + BLen(raw) <= MAX_AUDIO_BUFFER_BYTES

\* _start_recording
StartRecording ==
    /\ ptt_active' = TRUE
    /\ audio_frames' = <<>>
    /\ audio_buffer_size' = 0
    /\ ptt_recording_start' = now
    /\ ptt_timeout_timer' = FALSE

\* a faulty stop that schedules a task whether or not frames are buffered
StopRecording_AlwaysSchedules(fmt) ==
    /\ ptt_active' = FALSE
    /\ stt_tasks' = Append(stt_tasks, frames_to_wav(audio_frames, fmt))
    /\ audio_frames' = <<>>
    /\ audio_buffer_size' = 0

\* a faulty stop that leaves capture active
StopRecording_KeepsActive(fmt) ==
    /\ ptt_active' = ptt_active
    /\ IF audio_frames = <<>>
       THEN UNCHANGED <<audio_frames, audio_buffer_size, stt_tasks>>
       ELSE /\ stt_tasks' = Append(stt_tasks, frames_to_wav(audio_frames, fmt))
            /\ audio_frames' = <<>>
            /\ audio_buffer_size' = 0

\* _stop_recording, with the sample format current at the call
StopRecording(fmt) ==
    /\ ptt_active' = FALSE
    /\ IF audio_frames = <<>>
       THEN UNCHANGED <<audio_frames, audio_buffer_size, stt_tasks>>
       ELSE /\ stt_tasks' = Append(stt_tasks, frames_to_wav(audio_frames, fmt))
            /\ audio_frames' = <<>>
            /\ audio_buffer_size' = 0

\* one iteration of the `while True` loop of _on_track for an audio frame
OnAudioFrame ==
    /\ n_frames < MaxAudioFrames
    /\ n_frames' = n_frames + 1
    /\ \E len \in FrameLens, fmt \in FrameFormats :
        LET raw == Data("frame", n_frames + 1, len)
        IN  /\ audio_format' = fmt
            /\ IF ptt_active
               THEN IF now - ptt_recording_start >= PTT_MAX_RECORDING_DURATION
                    THEN /\ dc_out' = send_dc(dc_out, dc_open, "PTT_TIMEOUT")
                         /\ StopRecording(fmt)
                         /\ ptt_event' = [type |-> "FRAME_TIMEOUT", len |-> len]
                    ELSE /\ IF FitsBuffer(audio_buffer_size, raw)
                            THEN /\ audio_frames' = Append(audio_frames, raw)
                                 /\ audio_buffer_size' = audio_buffer_size + BLen(raw)
                            ELSE UNCHANGED <<audio_frames, audio_buffer_size>>
                         /\ ptt_event' = [type |-> "FRAME", len |-> len]
                         /\ UNCHANGED <<ptt_active, dc_out, stt_tasks>>
               ELSE /\ ptt_event' = [type |-> "FRAME", len |-> len]
                    /\ UNCHANGED <<ptt_active, audio_frames, audio_buffer_size, dc_out,
                                   stt_tasks>>
    /\ UNCHANGED <<ptt_recording_start, ptt_timeout_timer, now, dc_open, stt_inflight,
                   stt_calls, n_msgs>>

\* _on_dc_message
OnDcMessage ==
    /\ dc_open
    /\ n_msgs < MaxDcMsgs
    /\ n_msgs' = n_msgs + 1
    /\ \E t \in DcMsgTypes :
        /\ ptt_event' = [type |-> t, len |-> 0]
        /\ IF t = "PTT_START"
           THEN StartRecording /\ UNCHANGED stt_tasks
           ELSE IF t = "PTT_END"
           THEN StopRecording(audio_format)
                /\ UNCHANGED <<ptt_recording_start, ptt_timeout_timer>>
           ELSE UNCHANGED <<ptt_active, audio_frames, audio_buffer_size,
                            ptt_recording_start, ptt_timeout_timer, stt_tasks>>
    /\ UNCHANGED <<audio_format, now, dc_open, dc_out, stt_inflight, stt_calls, n_frames>>

\* _process_stt from its start to `await stt_transcribe(wav_bytes)`: a
\* recording shorter than 0.15 s is answered with PTT_TOO_SHORT and is not
\* transcribed
SttTaskStart ==
    /\ stt_tasks # <<>>
    /\ stt_tasks' = Tail(stt_tasks)
    /\ LET wav == Head(stt_tasks)
       IN  IF WavLen(wav) - WAV_HEADER_BYTES < MinBytes(audio_format)
           THEN /\ dc_out' = send_dc(dc_out, dc_open, "PTT_TOO_SHORT")
                /\ UNCHANGED <<stt_calls, stt_inflight>>
           ELSE /\ stt_calls' = Append(stt_calls, wav)
                /\ stt_inflight' = stt_inflight + 1
                /\ UNCHANGED dc_out
    /\ ptt_event' = [type |-> "STT_TASK", len |-> 0]
    /\ UNCHANGED <<ptt_active, audio_frames, audio_buffer_size, audio_format,
                   ptt_recording_start, ptt_timeout_timer, now, dc_open, n_frames, n_msgs>>

\* _process_stt after the await: the transcription returned a text or raised
SttTaskResume ==
    /\ stt_inflight > 0
    /\ stt_inflight' = stt_inflight - 1
    /\ \E ok \in BOOLEAN :
        dc_out' = send_dc(dc_out, dc_open, IF ok THEN "USER_STT" ELSE "PTT_TOO_SHORT")
    /\ ptt_event' = [type |-> "STT_RESULT", len |-> 0]
    /\ UNCHANGED <<ptt_active, audio_frames, audio_buffer_size, audio_format,
                   ptt_recording_start, ptt_timeout_timer, now, dc_open, stt_tasks,
                   stt_calls, n_frames, n_msgs>>

\* the event loop's clock advances
Tick ==
    /\ now < MaxTicks * TickSeconds
    /\ now' = now + TickSeconds
    /\ UNCHANGED <<ptt_active, audio_frames, audio_buffer_size, audio_format,
                   ptt_recording_start, ptt_timeout_timer, dc_open, dc_out, stt_tasks,
                   stt_inflight, stt_calls, ptt_event, n_frames, n_msgs>>

\* _on_datachannel: the peer opened a control channel
OnDatachannel ==
    /\ ~dc_open
    /\ dc_open' = TRUE
    /\ UNCHANGED <<ptt_active, audio_frames, audio_buffer_size, audio_format,
                   ptt_recording_start, ptt_timeout_timer, now, dc_out, stt_tasks,
                   stt_inflight, stt_calls, ptt_event, n_frames, n_msgs>>

\* _on_dc_close
OnDcClose ==
    /\ dc_open
    /\ dc_open' = FALSE
    /\ UNCHANGED <<ptt_active, audio_frames, audio_buffer_size, audio_format,
                   ptt_recording_start, ptt_timeout_timer, now, dc_out, stt_tasks,
                   stt_inflight, stt_calls, ptt_event, n_frames, n_msgs>>

InitPTT ==
    /\ ptt_active = FALSE
    /\ audio_frames = <<>>
    /\ audio_buffer_size = 0
    /\ audio_format = <<48000, 1>>
    /\ ptt_recording_start = 0
    /\ ptt_timeout_timer = FALSE
    /\ now = 0
    /\ dc_open = FALSE
    /\ dc_out = <<>>
    /\ stt_tasks = <<>>
    /\ stt_inflight = 0
    /\ stt_calls = <<>>
    /\ ptt_event = [type |-> "INIT", len |-> 0]
    /\ n_frames = 0
    /\ n_msgs = 0

PTTOnly == UNCHANGED <<regVars, iceVars, trackVars, s3Vars, recVars, lifeVars, turnVars, lockVars, hoVars, nrVars, stVars, connVars, ansVars>>

NextPTT ==
    \/ OnAudioFrame /\ PTTOnly
    \/ OnDcMessage /\ PTTOnly
    \/ SttTaskStart /\ PTTOnly
    \/ SttTaskResume /\ PTTOnly
    \/ Tick /\ PTTOnly
    \/ OnDatachannel /\ PTTOnly
    \/ OnDcClose /\ PTTOnly

----------------------------------------------------------------------------
(* Playback track: play() and recv() of TTSAudioTrack.  recv() is called  *)
(* by the transport, one call at a time; its sleep only delays the call,  *)
(* so a call is one step.  play() runs without interruption up to         *)
(* `await self._done_event.wait()` and resumes some time after that       *)
(* event was set.  An event is identified by the play() call that made it.*)

SAMPLES_PER_FRAME == 960

frame_bytes == SAMPLES_PER_FRAME * 2

SILENCE == Zeros(SAMPLES_PER_FRAME * 2)

MaxPlays == 2

MaxFrameCount == 6

PlayIds == 1..MaxPlays

\* len(pcm_bytes) of the utterances played
PcmLens == {0, 1920, 3000}

Sentinel(p) == [kind |-> "end", data |-> <<>>, play |-> p]

Chunk(p, data) == [kind |-> "chunk", data |-> data, play |-> p]

\* a faulty split that leaves the last chunk short
PaddedChunk_NoPadding(pcm, i) == BSlice(pcm, i, i + frame_bytes)

\* play(): chunk = pcm_bytes[i : i + frame_bytes], zero-padded to frame_bytes
PaddedChunk(pcm, i) ==
    LET chunk == BSlice(pcm, i, i + frame_bytes)
    IN  IF BLen(chunk) < frame_bytes
        THEN BCat(chunk, Zeros(frame_bytes - BLen(chunk)))
        ELSE chunk

\* play(): the chunks put for i in range(i, len(pcm_bytes), frame_bytes)
RECURSIVE PlayChunks(_, _, _)
PlayChunks(p, pcm, i) ==
    IF i >= BLen(pcm) THEN <<>>
    ELSE <<Chunk(p, PaddedChunk(pcm, i))>> \o PlayChunks(p, pcm, i + frame_bytes)

\* play(pcm_bytes) up to the await: the queue is emptied, a new event is
\* made, the chunks and the sentinel are put
PlayStart(p) ==
    /\ plays[p].pc = "idle"
    /\ \A q \in PlayIds : q < p => plays[q].pc # "idle"
    /\ \E n \in PcmLens :
        /\ plays' = [plays EXCEPT ![p] = [pc |-> "waiting", len |-> n]]
        /\ queue' = PlayChunks(p, Data("pcm", p, n), 0) \o <<Sentinel(p)>>
    /\ done_event' = p
    /\ UNCHANGED <<events_set, frame_count, dequeued, last_frame>>

\* play() after the await: its event was set; _done_event = None; return
PlayReturn(p) ==
    /\ plays[p].pc = "waiting"
    /\ p \in events_set
    /\ plays' = [plays EXCEPT ![p].pc = "returned"]
    /\ done_event' = 0
    /\ UNCHANGED <<queue, events_set, frame_count, dequeued, last_frame>>

\* recv() with _dequeue_frame
Recv ==
    /\ IF queue = <<>>
       THEN /\ last_frame' = SILENCE
            /\ UNCHANGED <<queue, events_set, dequeued>>
       ELSE LET item == Head(queue)
            IN  /\ queue' = Tail(queue)
                /\ dequeued' = Append(dequeued, item)
                /\ IF item.kind = "end"
                   THEN /\ events_set' = IF done_event # 0
                                         THEN events_set \cup {done_event}
                                         ELSE events_set
                        /\ last_frame' = SILENCE
                   ELSE /\ last_frame' = item.data
                        /\ UNCHANGED events_set
    \* _frame_count += 1; the counter only numbers the frames, and the model
    \* stops counting at MaxFrameCount so that recv() can be called for ever
    /\ frame_count' = IF frame_count < MaxFrameCount THEN frame_count + 1 ELSE frame_count
    /\ UNCHANGED <<done_event, plays>>

InitTrack ==
    /\ queue = <<>>
    /\ done_event = 0
    /\ events_set = {}
    /\ frame_count = 0
    /\ plays = [p \in PlayIds |-> [pc |-> "idle", len |-> 0]]
    /\ dequeued = <<>>
    /\ last_frame = <<>>

TrackOnly == UNCHANGED <<regVars, iceVars, pttVars, s3Vars, recVars, lifeVars, turnVars, lockVars, hoVars, nrVars, stVars, connVars, ansVars>>

NextTrack ==
    \/ \E p \in PlayIds : PlayStart(p) /\ TrackOnly
    \/ \E p \in PlayIds : PlayReturn(p) /\ TrackOnly
    \/ Recv /\ TrackOnly

----------------------------------------------------------------------------
(* Multipart upload client: S3MultipartUpload.  Its methods are           *)
(* synchronous and called from one thread, so each call is one step.      *)
(* The store's side is modelled by what it was asked: the parts uploaded, *)
(* the state of the upload handle and the part list of the finalize       *)
(* request.  Requests to the store are taken to succeed.                   *)

MIN_PART_SIZE == 5 * 1024 * 1024

MiB == 1024 * 1024

MaxWrites == 3

\* len(data) of the byte strings written
WriteLens == {0, 1, 1 * MiB, 2 * MiB, 4 * MiB, 5 * MiB, 11 * MiB}

\* the client's fields and the store's parts during one call
S3State(buf, parts, pn, store) ==
    [buf |-> buf, parts |-> parts, pn |-> pn, store |-> store]

\* _flush_part(data): upload_part, then record the part's number and token
\* and count on; the token names the stored part
flush_part(st, data, by) ==
    LET etag == Len(st.store) + 1
    IN  S3State(st.buf,
                Append(st.parts, [PartNumber |-> st.pn, ETag |-> etag]),
                st.pn + 1,
                Append(st.store, [PartNumber |-> st.pn, ETag |-> etag,
                                  Body |-> data, by |-> by]))

\* a faulty write() that uploads at most one part per call
WriteLoop_FlushOnce(st) ==
    IF BLen(st.buf) >= MIN_PART_SIZE
    THEN [flush_part(st, BTake(st.buf, MIN_PART_SIZE), "write")
            EXCEPT !.buf = BDrop(st.buf, MIN_PART_SIZE)]
    ELSE st

\* the `while len(self._buf) >= self.MIN_PART_SIZE` loop of write()
RECURSIVE WriteLoop(_)
WriteLoop(st) ==
    IF BLen(st.buf) >= MIN_PART_SIZE
    THEN LET up == flush_part(st, BTake(st.buf, MIN_PART_SIZE), "write")
         IN  WriteLoop([up EXCEPT !.buf = BDrop(st.buf, MIN_PART_SIZE)])
    ELSE st

\* start()
S3Start ==
    /\ ~s3_upload_id
    /\ s3_remote = "none"
    /\ s3_upload_id' = TRUE
    /\ s3_remote' = "open"
    /\ s3_last' = [op |-> "start", raised |-> FALSE]
    /\ UNCHANGED <<s3_buf, s3_parts, s3_part_number, s3_store, s3_final, s3_written,
                   s3_writes>>

\* write(data)
S3Write ==
    /\ s3_upload_id
    /\ s3_remote = "open"
    /\ s3_writes < MaxWrites
    /\ s3_writes' = s3_writes + 1
    /\ \E n \in WriteLens :
        LET data == Data("write", s3_writes + 1, n)
            st == WriteLoop(S3State(BCat(s3_buf, data), s3_parts, s3_part_number,
                                    s3_store))
        IN  /\ s3_buf' = st.buf
            /\ s3_parts' = st.parts
            /\ s3_part_number' = st.pn
            /\ s3_store' = st.store
            /\ s3_written' = BCat(s3_written, data)
    /\ s3_last' = [op |-> "write", raised |-> FALSE]
    /\ UNCHANGED <<s3_upload_id, s3_remote, s3_final>>

\* a faulty abort() that sends no request
abort_NoRequest(remote) == remote

\* abort(): abort_multipart_upload if an upload id is set
abort(remote) == IF s3_upload_id THEN "aborted" ELSE remote

\* a faulty complete() that discards the buffered rest
FlushRest_DropsRest(st) == [st EXCEPT !.buf = <<>>]

\* the `if self._buf` block of complete()
FlushRest(st) ==
    IF st.buf # <<>>
    THEN [flush_part(st, st.buf, "complete") EXCEPT !.buf = <<>>]
    ELSE st

\* complete()
S3Complete ==
    /\ s3_upload_id
    /\ s3_remote = "open"
    /\ LET st == FlushRest(S3State(s3_buf, s3_parts, s3_part_number, s3_store))
       IN  /\ s3_buf' = st.buf
           /\ s3_parts' = st.parts
           /\ s3_part_number' = st.pn
           /\ s3_store' = st.store
           /\ IF st.parts = <<>>
              THEN \* nothing to finalize: abort() and RuntimeError
                   /\ s3_remote' = abort(s3_remote)
                   /\ s3_last' = [op |-> "complete", raised |-> TRUE]
                   /\ UNCHANGED s3_final
              ELSE \* complete_multipart_upload with MultipartUpload.Parts
                   /\ s3_remote' = "completed"
                   /\ s3_final' = st.parts
                   /\ s3_last' = [op |-> "complete", raised |-> FALSE]
    /\ UNCHANGED <<s3_upload_id, s3_written, s3_writes>>

\* abort(), as called by the recorder when complete() raised
S3Abort ==
    /\ s3_last = [op |-> "complete", raised |-> TRUE]
    /\ s3_remote' = abort(s3_remote)
    /\ s3_last' = [op |-> "abort", raised |-> FALSE]
    /\ UNCHANGED <<s3_upload_id, s3_buf, s3_parts, s3_part_number, s3_store, s3_final,
                   s3_written, s3_writes>>

InitS3 ==
    /\ s3_upload_id = FALSE
    /\ s3_buf = <<>>
    /\ s3_parts = <<>>
    /\ s3_part_number = 1
    /\ s3_store = <<>>
    /\ s3_remote = "none"
    /\ s3_final = <<>>
    /\ s3_written = <<>>
    /\ s3_last = [op |-> "init", raised |-> FALSE]
    /\ s3_writes = 0

S3Only == UNCHANGED <<regVars, iceVars, pttVars, trackVars, recVars, lifeVars, turnVars, lockVars, hoVars, nrVars, stVars, connVars, ansVars>>

NextS3 ==
    \/ S3Start /\ S3Only
    \/ S3Write /\ S3Only
    \/ S3Complete /\ S3Only
    \/ S3Abort /\ S3Only

\* the object the store assembles from a finalize request: the bodies of
\* the listed parts, found by their tokens, in list order
RECURSIVE ObjectBytes(_, _)
ObjectBytes(parts, store) ==
    IF parts = <<>> THEN <<>>
    ELSE BCat(store[Head(parts).ETag].Body, ObjectBytes(Tail(parts), store))

----------------------------------------------------------------------------
(* Recorder: InterviewRecorder over its upload client.  The recorder's    *)
(* methods are plain functions: a call is one step.  The muxer appends to *)
(* _buf (fragmented MP4 is written front to back, and _flush_to_s3 leaves *)
(* the position at the end).  An encoder either holds a frame or emits    *)
(* one packet for every frame it holds; the flush of stop() emits the     *)
(* held ones.  The encoder flush and the close of stop() and the upload   *)
(* requests are taken to succeed; the error raised by complete() itself   *)
(* is modelled.                                                            *)

MaxRecOps == 4

\* sizes of the video packets the muxer writes
PacketLens == {100, 3 * MiB}

\* size of an audio packet
AUDIO_PACKET_BYTES == 100

TRAILER_BYTES == 8

\* sample rates of the PCM pushed
SampleRates == {48000, 16000}

\* len(pcm_bytes) of the PCM pushed
RecPcmLens == {0, 1000}

SAMPLE_RATE == 48000

\* the recorder's buffer and offset with its upload client during one call
RecState(buf, flushed, muxes, up, written, writes) ==
    [buf |-> buf, flushed |-> flushed, muxes |-> muxes, up |-> up,
     written |-> written, writes |-> writes]

\* self._container.mux(packet): the packet's bytes are appended to _buf
mux(st, len) ==
    [st EXCEPT !.buf = BCat(st.buf, Data("mux", st.muxes + 1, len)),
               !.muxes = st.muxes + 1]

\* uploader.write(data) as called by the recorder
uploader_write(st, data) ==
    [st EXCEPT !.up = WriteLoop([st.up EXCEPT !.buf = BCat(st.up.buf, data)]),
               !.written = BCat(st.written, data),
               !.writes = st.writes + 1]

\* a faulty flush that hands over the whole buffer each time
flush_to_s3_WholeBuffer(st) ==
    IF BLen(st.buf) > st.flushed
    THEN [uploader_write(st, st.buf) EXCEPT !.flushed = BLen(st.buf)]
    ELSE st

\* _flush_to_s3
flush_to_s3(st) ==
    IF BLen(st.buf) > st.flushed
    THEN [uploader_write(st, BDrop(st.buf, st.flushed)) EXCEPT !.flushed = BLen(st.buf)]
    ELSE st

\* `for packet in stream.encode(frame): mux(packet); _flush_to_s3()` for k packets
RECURSIVE MuxAndFlush(_, _, _)
MuxAndFlush(st, k, len) ==
    IF k = 0 THEN st ELSE MuxAndFlush(flush_to_s3(mux(st, len)), k - 1, len)

\* `for packet in stream.encode(): mux(packet)` of stop() for k packets
RECURSIVE MuxOnly(_, _, _)
MuxOnly(st, k, len) ==
    IF k = 0 THEN st ELSE MuxOnly(mux(st, len), k - 1, len)

\* the recorder's state as a RecState
RecNow ==
    RecState(rec_buf, rec_buf_flushed, rec_muxes,
             S3State(s3_buf, s3_parts, s3_part_number, s3_store),
             s3_written, s3_writes)

\* the variables take the values of a RecState
RecSet(st) ==
    /\ rec_buf' = st.buf
    /\ rec_buf_flushed' = st.flushed
    /\ rec_muxes' = st.muxes
    /\ s3_buf' = st.up.buf
    /\ s3_parts' = st.up.parts
    /\ s3_part_number' = st.up.pn
    /\ s3_store' = st.up.store
    /\ s3_written' = st.written
    /\ s3_writes' = st.writes

RecUnchanged ==
    UNCHANGED <<rec_running, rec_buf, rec_buf_flushed, rec_video_pts, rec_audio_pts,
                rec_v_pending, rec_a_pending, rec_muxes, rec_frames, rec_finalize,
                s3Vars>>

\* start(): the upload is opened, the container and its streams are made
RecStart ==
    /\ ~rec_running
    /\ ~s3_upload_id
    /\ s3_upload_id' = TRUE
    /\ s3_remote' = "open"
    /\ rec_buf' = <<>>
    /\ rec_buf_flushed' = 0
    /\ rec_running' = TRUE
    /\ rec_audio_pts' = 0
    /\ rec_video_pts' = 0
    /\ rec_last' = [op |-> "start", ret |-> "None"]
    /\ UNCHANGED <<rec_v_pending, rec_a_pending, rec_muxes, rec_frames, rec_finalize,
                   rec_ops, s3_buf, s3_parts, s3_part_number, s3_store, s3_final,
                   s3_written, s3_last, s3_writes>>

\* frame.pts of the frames pushed: the RTP clock starts at a random offset
IncomingPts == {0, 90000}

\* a faulty counter that stays where it is
next_video_pts_Same(pts) == pts

\* self._video_pts += 1
next_video_pts(pts) == pts + 1

\* self._audio_pts += SAMPLES_PER_FRAME
next_audio_pts(pts) == pts + SAMPLES_PER_FRAME

VideoOutcomes == {"reformat_raises", "zero_size", "encode_raises", "mux_raises", "hold",
                  "emit"}

\* push_video(frame)
PushVideo ==
    /\ rec_ops < MaxRecOps
    /\ rec_ops' = rec_ops + 1
    /\ \E in_pts \in IncomingPts :
         rec_last' = [op |-> "push_video", ret |-> "None", pts |-> in_pts]
    /\ IF ~rec_running
       THEN RecUnchanged
       ELSE \E out \in VideoOutcomes, len \in PacketLens :
            /\ (out \notin {"emit", "mux_raises"} => len = AUDIO_PACKET_BYTES)
            /\ IF out \in {"reformat_raises", "zero_size"}
               THEN RecUnchanged
               ELSE /\ rec_frames' = Append(rec_frames,
                                        [track |-> "video", pts |-> rec_video_pts,
                                         out |-> out])
                    /\ rec_video_pts' = next_video_pts(rec_video_pts)
                    /\ LET st == CASE out = "emit" -> MuxAndFlush(RecNow, rec_v_pending + 1, len)
                                   [] out = "mux_raises" -> mux(RecNow, len)
                                   [] OTHER -> RecNow
                       IN  RecSet(st)
                    /\ rec_v_pending' = CASE out = "hold" -> rec_v_pending + 1
                                          [] out = "emit" -> 0
                                          [] OTHER -> rec_v_pending
                    /\ UNCHANGED <<rec_running, rec_audio_pts, rec_a_pending, rec_finalize,
                                   s3_upload_id, s3_remote, s3_final, s3_last>>

\* the 48 kHz PCM of a push: the input, or the resampler's first frame, or
\* nothing when the resampler raises or returns no frame
Resampled(n, rate, res) ==
    IF rate = SAMPLE_RATE THEN n
    ELSE IF res = "ok" THEN (n * SAMPLE_RATE) \div rate
    ELSE 0

AudioOutcomes == {"hold", "emit", "encode_raises"}

\* the loop of push_audio_pcm over k chunks: each gets a timestamp and is
\* encoded; an encoder error ends the call at the first chunk
RECURSIVE AudioLoop(_, _, _)
AudioLoop(a, k, out) ==
    IF k = 0 THEN a
    ELSE LET stamped == [a EXCEPT !.frames = Append(a.frames,
                                                [track |-> "audio", pts |-> a.pts,
                                                 out |-> out]),
                                  !.pts = next_audio_pts(a.pts)]
         IN  CASE out = "encode_raises" -> stamped
               [] out = "hold" ->
                    AudioLoop([stamped EXCEPT !.pending = a.pending + 1], k - 1, out)
               [] OTHER ->
                    AudioLoop([stamped EXCEPT !.pending = 0,
                                              !.st = MuxAndFlush(a.st, a.pending + 1,
                                                                 AUDIO_PACKET_BYTES)],
                              k - 1, out)

\* push_audio_pcm(pcm_bytes, sample_rate)
PushAudio ==
    /\ rec_ops < MaxRecOps
    /\ rec_ops' = rec_ops + 1
    /\ rec_last' = [op |-> "push_audio_pcm", ret |-> "None"]
    /\ IF ~rec_running
       THEN RecUnchanged
       ELSE \E n \in RecPcmLens, rate \in SampleRates, res \in {"ok", "none"},
               out \in AudioOutcomes :
            /\ (rate = SAMPLE_RATE => res = "ok")
            /\ LET pcm == Resampled(n, rate, res)
                   a == AudioLoop([frames |-> rec_frames, pts |-> rec_audio_pts,
                                   pending |-> rec_a_pending, st |-> RecNow],
                                  CeilDiv(pcm, frame_bytes), out)
               IN  /\ rec_frames' = a.frames
                   /\ rec_audio_pts' = a.pts
                   /\ rec_a_pending' = a.pending
                   /\ RecSet(a.st)
                   /\ UNCHANGED <<rec_running, rec_video_pts, rec_v_pending, rec_finalize,
                                  s3_upload_id, s3_remote, s3_final, s3_last>>

\* container.close(): the trailer is written if the header was
close(st) ==
    IF st.muxes > 0
    THEN [st EXCEPT !.buf = BCat(st.buf, Data("trailer", 0, TRAILER_BYTES))]
    ELSE st

\* a faulty guard that lets every stop() through
stop_guard_Never == FALSE

\* stop(): `if not self._running: return None`
stop_guard == ~rec_running

\* stop()
RecStop ==
    /\ rec_ops < MaxRecOps
    /\ rec_ops' = rec_ops + 1
    /\ IF stop_guard
       THEN /\ rec_last' = [op |-> "stop", ret |-> "None"]
            /\ RecUnchanged
       ELSE \E len \in PacketLens :
            LET flushed == MuxOnly(MuxOnly(RecNow, rec_v_pending, len), rec_a_pending,
                                   AUDIO_PACKET_BYTES)
                st == flush_to_s3(close(flushed))
                up == FlushRest(st.up)
            IN  /\ rec_running' = FALSE
                /\ rec_v_pending' = 0
                /\ rec_a_pending' = 0
                /\ RecSet([st EXCEPT !.up = up])
                /\ rec_finalize' = [s \in DOMAIN rec_finalize |-> rec_finalize[s] + 1]
                /\ IF up.parts = <<>>
                   THEN \* complete() aborts and raises; stop() aborts and returns None
                        /\ s3_remote' = abort(abort(s3_remote))
                        /\ s3_last' = [op |-> "complete", raised |-> TRUE]
                        /\ rec_last' = [op |-> "stop", ret |-> "None"]
                        /\ UNCHANGED s3_final
                   ELSE /\ s3_remote' = "completed"
                        /\ s3_final' = up.parts
                        /\ s3_last' = [op |-> "complete", raised |-> FALSE]
                        /\ rec_last' = [op |-> "stop", ret |-> "url"]
                /\ UNCHANGED <<rec_video_pts, rec_audio_pts, rec_frames, s3_upload_id>>

InitRecorder ==
    /\ rec_running = FALSE
    /\ rec_buf = <<>>
    /\ rec_buf_flushed = 0
    /\ rec_video_pts = 0
    /\ rec_audio_pts = 0
    /\ rec_v_pending = 0
    /\ rec_a_pending = 0
    /\ rec_muxes = 0
    /\ rec_frames = <<>>
    /\ rec_finalize = [s \in {"flush_encoders", "close", "final_flush", "complete"} |-> 0]
    /\ rec_last = [op |-> "init", ret |-> "None"]
    /\ rec_ops = 0

RecorderOnly == UNCHANGED <<regVars, iceVars, pttVars, trackVars, lifeVars, turnVars, lockVars, hoVars, nrVars, stVars, connVars, ansVars>>

NextRecorder ==
    \/ RecStart /\ RecorderOnly
    \/ PushVideo /\ RecorderOnly
    \/ PushAudio /\ RecorderOnly
    \/ RecStop /\ RecorderOnly

----------------------------------------------------------------------------
(* Session teardown for one room: the WEBRTC_OFFER branch of _session,     *)
(* remove_session and cleanup.  remove_session is called from the event   *)
(* loop (timers, connection state changes) and from request threads: its  *)
(* `with _sessions_lock` block is one step and the cleanup it runs after  *)
(* releasing the lock is another.  cleanup() is also a public method and  *)
(* may be called on a session directly.  peer.close() is either scheduled *)
(* on the running loop, or run to completion inside cleanup() when the    *)
(* caller's loop is not running, or not reached because the caller's     *)
(* thread has no event loop.                                               *)

MaxSessionObjs == 2

NumRemovers == 2

MaxLifeOps == 3

SessionObjs == 1..MaxSessionObjs

Removers == 1..NumRemovers

\* how cleanup() gets to peer.close()
CloseModes == {"task", "sync", "no_loop"}

\* the fields of a session after WebRTCSession.__init__
NewSession ==
    [cleaned_up |-> FALSE, interview_timer |-> "none", ptt_timeout_timer |-> "none",
     ptt_active |-> FALSE, audio_frames |-> 0, tts_track |-> "live", dc |-> "none",
     peer |-> "set", connection |-> "open", closed |-> FALSE, sent |-> "none"]

\* the state of the registry, the sessions and the counters during one call
LifeState(reg, ss, got, calls, downs) ==
    [reg |-> reg, ss |-> ss, got |-> got, calls |-> calls, downs |-> downs]

\* the teardown steps of cleanup() up to the peer connection
teardown_fields(f) ==
    [f EXCEPT !.cleaned_up = TRUE,
              !.interview_timer = IF @ = "armed" THEN "cancelled" ELSE @,
              !.ptt_timeout_timer = IF @ = "armed" THEN "cancelled" ELSE @,
              !.ptt_active = FALSE,
              !.audio_frames = 0,
              !.tts_track = "stopped",
              !.dc = IF @ = "open" THEN "closed" ELSE @]

\* a faulty guard that never stops a call
cleanup_guard_Never(f) == FALSE

\* cleanup(): `if self._cleaned_up: return`
cleanup_guard(f) == f.cleaned_up

\* cleanup() of object o with peer.close() scheduled as a task, or not
\* reached: no handler runs inside the call
cleanup_flat(st, o, mode) ==
    LET called == [st EXCEPT !.calls[o] = @ + 1]
    IN  IF cleanup_guard(st.ss[o]) THEN called
        ELSE [called EXCEPT
                !.downs[o] = @ + 1,
                !.ss[o] = [teardown_fields(st.ss[o]) EXCEPT
                             !.connection = IF mode = "task" THEN "closing" ELSE @,
                             !.peer = "None",
                             !.closed = TRUE]]

\* a faulty pop that leaves the entry in the registry
sessions_pop_Keeps(reg) == reg

\* the registry entry of the room after _sessions.pop(room_id, None)
sessions_pop(reg) == 0

\* remove_session(room_id) called from _on_connection_state_change while
\* cleanup() runs peer.close() to completion: the loop is running then
remove_session_nested(st) ==
    LET s == st.reg
        popped == [st EXCEPT !.reg = sessions_pop(st.reg)]
    IN  IF s = 0 THEN popped
        ELSE cleanup_flat([popped EXCEPT !.got[s] = @ + 1], s, "task")

\* cleanup() of object o
cleanup(st, o, mode) ==
    IF mode # "sync" \/ cleanup_guard(st.ss[o])
    THEN cleanup_flat(st, o, mode)
    ELSE LET entered == [st EXCEPT !.calls[o] = @ + 1,
                                   !.downs[o] = @ + 1,
                                   !.ss[o] = [teardown_fields(st.ss[o]) EXCEPT
                                                !.connection = "closed"]]
             handled == remove_session_nested(entered)
         IN  [handled EXCEPT !.ss[o].peer = "None", !.ss[o].closed = TRUE]

LifeNow == LifeState(room_session, sess, obtained, cleanup_calls, teardowns)

LifeSet(st) ==
    /\ room_session' = st.reg
    /\ sess' = st.ss
    /\ obtained' = st.got
    /\ cleanup_calls' = st.calls
    /\ teardowns' = st.downs

\* _session: a WEBRTC_OFFER frame arrives; the session is created and put
\* into the registry, and handle_offer starts
LcOffer ==
    /\ lc_pc = "recv"
    /\ objs < MaxSessionObjs
    /\ objs' = objs + 1
    /\ sess' = [sess EXCEPT ![objs + 1] = NewSession]
    /\ room_session' = objs + 1
    /\ overwritten' = IF room_session # 0 THEN overwritten \cup {room_session}
                      ELSE overwritten
    /\ lc_session' = objs + 1
    /\ lc_pc' = "offer"
    /\ UNCHANGED <<remover, obtained, cleanup_calls, teardowns, offer_failed, life_ops>>

\* handle_offer returns, or raises into the `except Exception` of _session,
\* after which _session waits for session.closed
LcOfferDone ==
    /\ lc_pc = "offer"
    /\ \E ok \in BOOLEAN :
        IF ok
        THEN /\ lc_pc' = "recv"
             /\ UNCHANGED offer_failed
        ELSE /\ lc_pc' = "wait_closed"
             /\ offer_failed' = offer_failed \cup {lc_session}
    /\ UNCHANGED <<room_session, objs, sess, remover, lc_session, obtained,
                   cleanup_calls, teardowns, overwritten, life_ops>>

\* the websocket closes: the loop ends and _session waits for session.closed
LcWsClosed ==
    /\ lc_pc = "recv"
    /\ lc_pc' = IF lc_session = 0 THEN "done" ELSE "wait_closed"
    /\ UNCHANGED <<room_session, objs, sess, remover, lc_session, obtained,
                   cleanup_calls, teardowns, offer_failed, overwritten, life_ops>>

\* `await session.closed.wait()` returns and the thread ends
LcWaitDone ==
    /\ lc_pc = "wait_closed"
    /\ sess[lc_session].closed
    /\ lc_pc' = "done"
    /\ UNCHANGED <<room_session, objs, sess, remover, lc_session, obtained,
                   cleanup_calls, teardowns, offer_failed, overwritten, life_ops>>

\* the session of this connection is in use: the control channel opened, the
\* interview timer and the no-response timer are armed, capture is active
\* with frames buffered
SessionInUse(o) ==
    /\ o = lc_session
    /\ o \notin offer_failed
    /\ ~(lc_pc = "offer" /\ lc_session = o)
    /\ ~sess[o].cleaned_up
    /\ sess[o].dc = "none"
    /\ sess' = [sess EXCEPT ![o] = [@ EXCEPT !.dc = "open",
                                             !.interview_timer = "armed",
                                             !.ptt_timeout_timer = "armed",
                                             !.ptt_active = TRUE,
                                             !.audio_frames = 1]]
    /\ UNCHANGED <<room_session, objs, remover, lc_pc, lc_session, obtained,
                   cleanup_calls, teardowns, offer_failed, overwritten, life_ops>>

\* remove_session(room_id), the block under the lock:
\* session = _sessions.pop(room_id, None); without a session the call returns
RemovePop(c) ==
    /\ remover[c].pc = "idle"
    /\ life_ops < MaxLifeOps
    /\ life_ops' = life_ops + 1
    /\ room_session' = sessions_pop(room_session)
    /\ IF room_session = 0
       THEN UNCHANGED <<remover, obtained>>
       ELSE /\ remover' = [remover EXCEPT ![c] = [pc |-> "popped", s |-> room_session]]
            /\ obtained' = [obtained EXCEPT ![room_session] = @ + 1]
    /\ UNCHANGED <<objs, sess, lc_pc, lc_session, cleanup_calls, teardowns,
                   offer_failed, overwritten>>

\* remove_session(room_id) after the lock is released: session.cleanup()
RemoveCleanup(c) ==
    /\ remover[c].pc = "popped"
    /\ \E mode \in CloseModes : LifeSet(cleanup(LifeNow, remover[c].s, mode))
    /\ remover' = [remover EXCEPT ![c] = [pc |-> "idle", s |-> 0]]
    /\ UNCHANGED <<objs, lc_pc, lc_session, offer_failed, overwritten, life_ops>>

\* cleanup() called on a session directly
CleanupCall(o) ==
    /\ o <= objs
    /\ life_ops < MaxLifeOps
    /\ life_ops' = life_ops + 1
    /\ \E mode \in CloseModes : LifeSet(cleanup(LifeNow, o, mode))
    /\ UNCHANGED <<objs, remover, lc_pc, lc_session, offer_failed, overwritten>>

\* the two timers of a session and the message each sends when it fires
TimerMessage ==
    [interview_timer |-> "INTERVIEW_END", ptt_timeout_timer |-> "AI_ERROR"]

\* send_dc(data) on session fields f
send_terminal(f, msg) == IF f.dc = "open" THEN [f EXCEPT !.sent = msg] ELSE f

\* _on_interview_timeout / _on_ptt_timeout of session o, called by the
\* loop when the timer is due: send_dc, then remove_session(self.room_id)
TimerFires(o, t) ==
    /\ o <= objs
    /\ sess[o][t] = "armed"
    /\ LET fired == [send_terminal(sess[o], TimerMessage[t]) EXCEPT ![t] = "fired"]
           st == [LifeNow EXCEPT !.ss[o] = fired]
       IN  LifeSet(remove_session_nested(st))
    /\ UNCHANGED <<objs, remover, lc_pc, lc_session, offer_failed, overwritten, life_ops>>

\* the peer.close() task scheduled by cleanup() runs: the connection
\* closes; _on_connection_state_change finds self.peer None and raises
PeerCloseTask(o) ==
    /\ o <= objs
    /\ sess[o].connection = "closing"
    /\ sess' = [sess EXCEPT ![o].connection = "closed"]
    /\ UNCHANGED <<room_session, objs, remover, lc_pc, lc_session, obtained,
                   cleanup_calls, teardowns, offer_failed, overwritten, life_ops>>

InitLife ==
    /\ room_session = 0
    /\ objs = 0
    /\ sess = [o \in SessionObjs |-> NewSession]
    /\ remover = [c \in Removers |-> [pc |-> "idle", s |-> 0]]
    /\ lc_pc = "recv"
    /\ lc_session = 0
    /\ obtained = [o \in SessionObjs |-> 0]
    /\ cleanup_calls = [o \in SessionObjs |-> 0]
    /\ teardowns = [o \in SessionObjs |-> 0]
    /\ offer_failed = {}
    /\ overwritten = {}
    /\ life_ops = 0

LifeOnly == UNCHANGED <<regVars, iceVars, pttVars, trackVars, s3Vars, recVars, turnVars, lockVars, hoVars, nrVars, stVars, connVars, ansVars>>

NextLife ==
    \/ LcOffer /\ LifeOnly
    \/ LcOfferDone /\ LifeOnly
    \/ LcWsClosed /\ LifeOnly
    \/ LcWaitDone /\ LifeOnly
    \/ \E o \in SessionObjs : SessionInUse(o) /\ LifeOnly
    \/ \E c \in Removers : RemovePop(c) /\ LifeOnly
    \/ \E c \in Removers : RemoveCleanup(c) /\ LifeOnly
    \/ \E o \in SessionObjs : CleanupCall(o) /\ LifeOnly
    \/ \E o \in SessionObjs : PeerCloseTask(o) /\ LifeOnly

\* the sessions of one signaling connection with their timers, without
\* callers of remove_session other than the timers
NextLifeTimers ==
    \/ LcOffer /\ LifeOnly
    \/ LcOfferDone /\ LifeOnly
    \/ LcWsClosed /\ LifeOnly
    \/ LcWaitDone /\ LifeOnly
    \/ \E o \in SessionObjs : SessionInUse(o) /\ LifeOnly
    \/ \E o \in SessionObjs : PeerCloseTask(o) /\ LifeOnly
    \/ \E o \in SessionObjs, t \in DOMAIN TimerMessage : TimerFires(o, t) /\ LifeOnly

----------------------------------------------------------------------------
(* One answer turn: the task _process_stt from `await stt_transcribe`     *)
(* through _handle_interview_answer and _speak.  The repository holds two *)
(* copies of this code, src/signaling and src/ai_bot/signaling, which     *)
(* differ in what they catch; the copy that runs is chosen first.         *)
(* The control channel is open throughout.                                *)

MaxTurns == 3

Variants == {"signaling", "ai_bot"}

\* one of the two copies is the one the deployment imports
TurnImport ==
    /\ turn_pc = "unloaded"
    /\ turn_pc' = "idle"
    /\ turn_variant' \in Variants
    /\ UNCHANGED <<turn_out, turn_failed, turn_escaped, turn_finished, turn_timer,
                   turn_removal, turn_n>>

\* the task ends with the exception of a collaborator
TurnEscape(who) ==
    /\ turn_pc' = "idle"
    /\ turn_failed' = turn_failed \cup {who}
    /\ turn_escaped' = turn_escaped + 1

\* _stop_recording scheduled _process_stt with a long enough recording:
\* the task reaches `await stt_transcribe(wav_bytes)`
TurnStart ==
    /\ turn_pc = "idle"
    /\ turn_removal # "done"
    /\ turn_n < MaxTurns
    /\ turn_n' = turn_n + 1
    /\ turn_pc' = "stt"
    /\ turn_out' = <<>>
    /\ turn_failed' = {}
    /\ UNCHANGED <<turn_variant, turn_escaped, turn_finished, turn_timer, turn_removal>>

\* _process_stt after `await stt_transcribe(wav_bytes)`
TurnTranscribed ==
    /\ turn_pc = "stt"
    /\ \E ok \in BOOLEAN :
        IF ok
        THEN /\ turn_out' = Append(turn_out, "USER_STT")
             /\ turn_pc' = IF turn_finished THEN "idle" ELSE "generate"
             /\ UNCHANGED <<turn_failed, turn_escaped>>
        ELSE IF turn_variant = "signaling"
        THEN /\ turn_out' = Append(turn_out, "PTT_TOO_SHORT")
             /\ turn_pc' = "idle"
             /\ turn_failed' = turn_failed \cup {"stt"}
             /\ UNCHANGED turn_escaped
        ELSE TurnEscape("stt") /\ UNCHANGED turn_out
    /\ UNCHANGED <<turn_variant, turn_finished, turn_timer, turn_removal, turn_n>>

\* _handle_interview_answer after `await self._interview.process_answer`
TurnGenerated ==
    /\ turn_pc = "generate"
    /\ \E res \in {"raised", "question", "finished"} :
        IF res = "raised"
        THEN /\ IF turn_variant = "signaling"
                THEN TurnEscape("generate") /\ UNCHANGED turn_out
                ELSE /\ turn_out' = Append(turn_out, "AI_ERROR")
                     /\ turn_pc' = "idle"
                     /\ turn_failed' = turn_failed \cup {"generate"}
                     /\ UNCHANGED turn_escaped
             /\ UNCHANGED turn_finished
        ELSE /\ turn_out' = Append(turn_out, IF res = "finished" THEN "INTERVIEW_END"
                                             ELSE "AI_QUESTION")
             /\ turn_finished' = (res = "finished")
             /\ turn_pc' = "tts"
             /\ UNCHANGED <<turn_failed, turn_escaped>>
    /\ UNCHANGED <<turn_variant, turn_timer, turn_removal, turn_n>>

\* the rest of _handle_interview_answer after _speak returned
AfterSpeak ==
    IF turn_variant = "signaling" /\ turn_finished
    THEN turn_timer' = "cancelled" /\ turn_removal' = "scheduled"
    ELSE turn_timer' = "armed" /\ UNCHANGED turn_removal

\* _speak after `await tts_synthesize(text, ...)`
TurnSynthesized ==
    /\ turn_pc = "tts"
    /\ \E ok \in BOOLEAN :
        IF ok
        THEN /\ turn_pc' = "play"
             /\ UNCHANGED <<turn_out, turn_failed, turn_escaped, turn_timer, turn_removal>>
        ELSE IF turn_variant = "signaling"
        THEN TurnEscape("tts") /\ UNCHANGED <<turn_out, turn_timer, turn_removal>>
        ELSE /\ turn_out' = Append(turn_out, "AI_DONE")
             /\ turn_pc' = "idle"
             /\ turn_failed' = turn_failed \cup {"tts"}
             /\ AfterSpeak
             /\ UNCHANGED turn_escaped
    /\ UNCHANGED <<turn_variant, turn_finished, turn_n>>

\* _speak after `await self._tts_track.play(pcm_bytes)`: AI_DONE is sent and
\* the no-response timer is armed again
TurnPlayed ==
    /\ turn_pc = "play"
    /\ turn_out' = Append(turn_out, "AI_DONE")
    /\ turn_pc' = "idle"
    /\ AfterSpeak
    /\ UNCHANGED <<turn_variant, turn_failed, turn_escaped, turn_finished, turn_n>>

\* _deferred_remove_session, one second after the closing speech
TurnDeferredRemove ==
    /\ turn_removal = "scheduled"
    /\ turn_removal' = "done"
    /\ UNCHANGED <<turn_variant, turn_pc, turn_out, turn_failed, turn_escaped,
                   turn_finished, turn_timer, turn_n>>

InitTurn ==
    /\ turn_variant = "none"
    /\ turn_pc = "unloaded"
    /\ turn_out = <<>>
    /\ turn_failed = {}
    /\ turn_escaped = 0
    /\ turn_finished = FALSE
    /\ turn_timer = "armed"
    /\ turn_removal = "none"
    /\ turn_n = 0

TurnOnly == UNCHANGED <<regVars, iceVars, pttVars, trackVars, s3Vars, recVars, lifeVars, lockVars, hoVars, nrVars, stVars, connVars, ansVars>>

NextTurn ==
    \/ TurnImport /\ TurnOnly
    \/ TurnStart /\ TurnOnly
    \/ TurnTranscribed /\ TurnOnly
    \/ TurnGenerated /\ TurnOnly
    \/ TurnSynthesized /\ TurnOnly
    \/ TurnPlayed /\ TurnOnly
    \/ TurnDeferredRemove /\ TurnOnly

----------------------------------------------------------------------------
(* The registry lock: the functions of session.py that touch _sessions,   *)
(* run by concurrent threads, with the lock taken and released as the     *)
(* `with _sessions_lock` blocks do.  One room is looked at.               *)

NumLockThreads == 2

MaxLockOps == 3

LockThreads == 1..NumLockThreads

\* the functions that touch _sessions
LockFns == {"start", "offer", "active_session_count", "get_session", "remove_session"}

\* a thread calls one of the functions and reaches its `with _sessions_lock`
LockCall(t) ==
    /\ lk_pc[t].at = "idle"
    /\ lk_ops < MaxLockOps
    /\ lk_ops' = lk_ops + 1
    /\ \E f \in LockFns : lk_pc' = [lk_pc EXCEPT ![t] = [fn |-> f, at |-> "with", got |-> FALSE]]
    /\ UNCHANGED <<sessions_lock, lk_entry, lk_unlocked, lk_teardown_locked>>

\* `with _sessions_lock:` is entered
LockAcquire(t) ==
    /\ lk_pc[t].at = "with"
    /\ sessions_lock = 0
    /\ sessions_lock' = t
    /\ lk_pc' = [lk_pc EXCEPT ![t].at = "inside"]
    /\ UNCHANGED <<lk_entry, lk_unlocked, lk_teardown_locked, lk_ops>>

\* an access of _sessions by thread t at a place in the code
MapAccess(t, site) ==
    lk_unlocked' = IF sessions_lock = t THEN lk_unlocked ELSE lk_unlocked \cup {site}

\* the statement inside the block: len(_sessions), _sessions[room_id] =
\* session, _sessions.get(room_id) or _sessions.pop(room_id, None)
LockInside(t) ==
    /\ lk_pc[t].at = "inside"
    /\ MapAccess(t, lk_pc[t].fn)
    /\ lk_entry' = CASE lk_pc[t].fn = "offer" -> TRUE
                     [] lk_pc[t].fn = "remove_session" -> FALSE
                     [] OTHER -> lk_entry
    /\ lk_pc' = [lk_pc EXCEPT ![t] = [@ EXCEPT !.at = "exit", !.got = lk_entry]]
    /\ UNCHANGED <<sessions_lock, lk_teardown_locked, lk_ops>>

\* the block is left and the lock released; _session goes on to its log
\* line, remove_session to the cleanup of the session it popped
LockRelease(t) ==
    /\ lk_pc[t].at = "exit"
    /\ sessions_lock' = 0
    /\ lk_pc' = [lk_pc EXCEPT ![t].at =
                    CASE lk_pc[t].fn = "offer" -> "log"
                      [] lk_pc[t].fn = "remove_session" /\ lk_pc[t].got -> "cleanup"
                      [] OTHER -> "idle"]
    /\ UNCHANGED <<lk_entry, lk_unlocked, lk_teardown_locked, lk_ops>>

\* _session after the block: the log line evaluates len(_sessions)
LockOfferLog(t) ==
    /\ lk_pc[t].at = "log"
    /\ MapAccess(t, "offer_log")
    /\ lk_pc' = [lk_pc EXCEPT ![t].at = "idle"]
    /\ UNCHANGED <<sessions_lock, lk_entry, lk_teardown_locked, lk_ops>>

\* remove_session after the block: session.cleanup()
LockCleanup(t) ==
    /\ lk_pc[t].at = "cleanup"
    /\ lk_teardown_locked' = (lk_teardown_locked \/ sessions_lock = t)
    /\ lk_pc' = [lk_pc EXCEPT ![t].at = "idle"]
    /\ UNCHANGED <<sessions_lock, lk_entry, lk_unlocked, lk_ops>>

InitLock ==
    /\ sessions_lock = 0
    /\ lk_pc = [t \in LockThreads |-> [fn |-> "none", at |-> "idle", got |-> FALSE]]
    /\ lk_entry = FALSE
    /\ lk_unlocked = {}
    /\ lk_teardown_locked = FALSE
    /\ lk_ops = 0

LockOnly ==
    UNCHANGED <<regVars, iceVars, pttVars, trackVars, s3Vars, recVars, lifeVars, turnVars,
                hoVars, nrVars, stVars, connVars, ansVars>>

NextLock ==
    \/ \E t \in LockThreads : LockCall(t) /\ LockOnly
    \/ \E t \in LockThreads : LockAcquire(t) /\ LockOnly
    \/ \E t \in LockThreads : LockInside(t) /\ LockOnly
    \/ \E t \in LockThreads : LockRelease(t) /\ LockOnly
    \/ \E t \in LockThreads : LockOfferLog(t) /\ LockOnly
    \/ \E t \in LockThreads : LockCleanup(t) /\ LockOnly

----------------------------------------------------------------------------
(* handle_offer and handle_ice of one WebRTCSession as coroutines on the   *)
(* session's event loop.  A coroutine runs without interruption up to its *)
(* next await; each action is one such stretch.  The caller may await     *)
(* each call before making the next (_session of src/signaling) or start  *)
(* each call as a task of its own (_recv_loop of src/ai_bot/signaling):   *)
(* a handle_ice call can then start while handle_offer is suspended.      *)
(* The awaits of the peer connection return or raise; the send of the     *)
(* answer frame is taken to succeed.                                       *)

MaxIceCalls == 3

\* range(200) of the gathering wait
GATHER_POLLS == 200

\* the candidate of a payload parses, or _parse_candidate (or the payload
\* lookup) raises
CandidateKinds == {"parses", "bad_parse"}

Logged(op, id) == [op |-> op, id |-> id]

NextPending_StopsAtBad(i) ==
    IF i > Len(ho_pending_remote_ice) THEN i
    ELSE IF ice_task[ho_pending_remote_ice[i]].kind = "bad_parse"
    THEN Len(ho_pending_remote_ice) + 1
    ELSE i

\* the first buffered call from position i on whose candidate parses, or
\* Len + 1: a candidate that does not parse raises inside the try block and
\* the loop goes on without an await
RECURSIVE NextPending(_)
NextPending(i) ==
    IF i > Len(ho_pending_remote_ice) THEN i
    ELSE IF ice_task[ho_pending_remote_ice[i]].kind = "bad_parse" THEN NextPending(i + 1)
    ELSE i

\* the buffered calls between positions i and j - 1 were dropped by the
\* except clause, and the one at j, if any, is handed to addIceCandidate
PendingStep(tasks, i, j) ==
    [n \in DOMAIN tasks |->
        IF \E k \in i..(j - 1) : ho_pending_remote_ice[k] = n
        THEN [tasks[n] EXCEPT !.at = "dropped"]
        ELSE IF j <= Len(ho_pending_remote_ice) /\ ho_pending_remote_ice[j] = n
        THEN [tasks[n] EXCEPT !.at = "suspended"]
        ELSE tasks[n]]

\* handle_offer from the top of an iteration of its loop, at position i
\* with the tasks as given, up to its next await: addIceCandidate of the
\* next candidate that parses, or, the loop over, clear(), addTrack and
\* createAnswer
OfferLoopFrom(tasks, log, i) ==
    LET j == NextPending(i)
    IN  /\ ice_task' = PendingStep(tasks, i, j)
        /\ IF j <= Len(ho_pending_remote_ice)
           THEN /\ ho_pc' = "pending"
                /\ ho_idx' = j
                /\ ho_log' = Append(log, Logged("addIceCandidate", ho_pending_remote_ice[j]))
                /\ UNCHANGED <<ho_pending_remote_ice, ho_clears>>
           ELSE /\ ho_pc' = "sdp"
                /\ ho_idx' = 0
                /\ ho_pending_remote_ice' = <<>>
                /\ ho_clears' = ho_clears + 1
                /\ ho_log' = Append(log, Logged("addTrack", 0))

\* handle_offer(payload) is called: it runs up to `await
\* self.peer.setRemoteDescription(offer)`
HandleOfferCalled ==
    /\ ho_pc = "none"
    /\ ho_pc' = "setRemote"
    /\ UNCHANGED <<ho_idx, ho_polls, ho_remote_desc_set, ho_pending_remote_ice,
                   ice_gathering_state, ice_task, ho_log, ho_clears>>

\* setRemoteDescription returns or raises; on return the flag is set and
\* the loop over the buffered candidates starts
RemoteDescriptionSet ==
    /\ ho_pc = "setRemote"
    /\ \E ok \in BOOLEAN :
        IF ok
        THEN /\ ho_remote_desc_set' = TRUE
             /\ OfferLoopFrom(ice_task, Append(ho_log, Logged("setRemoteDescription", 0)), 1)
        ELSE /\ ho_pc' = "raised"
             /\ UNCHANGED <<ho_idx, ho_remote_desc_set, ho_pending_remote_ice, ice_task,
                            ho_log, ho_clears>>
    /\ UNCHANGED <<ho_polls, ice_gathering_state>>

\* what became of a candidate handed to addIceCandidate: it returned, or
\* it raised and the except clause logged it
Outcomes == {"applied", "dropped"}

\* addIceCandidate of a buffered candidate returns or raises; the loop
\* goes on
PendingCandidateDone ==
    /\ ho_pc = "pending"
    /\ \E out \in Outcomes :
        OfferLoopFrom([ice_task EXCEPT ![ho_pending_remote_ice[ho_idx]].at = out],
                      ho_log, ho_idx + 1)
    /\ UNCHANGED <<ho_polls, ho_remote_desc_set, ice_gathering_state>>

\* the end of handle_offer: the answer frame is sent
SendAnswer(log) ==
    /\ ho_log' = Append(log, Logged("WEBRTC_ANSWER", 0))
    /\ ho_pc' = "returned"

GatherWait_Unbounded(log, n, state) ==
    IF state = "complete"
    THEN /\ SendAnswer(log)
         /\ ho_polls' = 0
    ELSE /\ ho_polls' = n + 1
         /\ ho_pc' = "poll"
         /\ ho_log' = log

\* one pass of the gathering wait after n sleeps: past the 200th the loop
\* is over; before, the state is read and the wait ends or sleeps again
GatherWait(log, n, state) ==
    IF n >= GATHER_POLLS \/ state = "complete"
    THEN /\ SendAnswer(log)
         /\ ho_polls' = 0
    ELSE /\ ho_polls' = n + 1
         /\ ho_pc' = "poll"
         /\ ho_log' = log

\* createAnswer and setLocalDescription return, or one of them raises;
\* gathering may be complete by then; the wait starts
LocalDescriptionSet ==
    /\ ho_pc = "sdp"
    /\ \E ok \in BOOLEAN, state \in {"gathering", "complete"} :
        IF ok
        THEN /\ ice_gathering_state' = state
             /\ GatherWait(Append(ho_log, Logged("setLocalDescription", 0)), 0, state)
        ELSE /\ ho_pc' = "raised"
             /\ UNCHANGED <<ho_polls, ice_gathering_state, ho_log>>
    /\ UNCHANGED <<ho_idx, ho_remote_desc_set, ho_pending_remote_ice, ice_task, ho_clears>>

\* asyncio.sleep(0.05) returns
GatherSleepDone ==
    /\ ho_pc = "poll"
    /\ GatherWait(ho_log, ho_polls, ice_gathering_state)
    /\ UNCHANGED <<ho_idx, ho_remote_desc_set, ho_pending_remote_ice,
                   ice_gathering_state, ice_task, ho_clears>>

\* the peer connection finishes gathering
GatheringCompletes ==
    /\ ho_pc = "poll"
    /\ ice_gathering_state = "gathering"
    /\ ice_gathering_state' = "complete"
    /\ UNCHANGED <<ho_pc, ho_idx, ho_polls, ho_remote_desc_set, ho_pending_remote_ice,
                   ice_task, ho_log, ho_clears>>

ice_is_early_Always == TRUE

\* `if not self._remote_desc_set` of handle_ice
ice_is_early == ~ho_remote_desc_set

\* handle_ice(payload) is called and runs up to its return or to `await
\* self.peer.addIceCandidate(candidate)`
HandleIceCalled ==
    /\ ho_pc # "none"
    /\ Len(ice_task) < MaxIceCalls
    /\ \E kind \in CandidateKinds :
        LET n == Len(ice_task) + 1
        IN  IF ice_is_early
            THEN /\ ho_pending_remote_ice' = Append(ho_pending_remote_ice, n)
                 /\ ice_task' = Append(ice_task, [kind |-> kind, at |-> "buffered"])
                 /\ UNCHANGED ho_log
            ELSE IF kind = "bad_parse"
            THEN /\ ice_task' = Append(ice_task, [kind |-> kind, at |-> "dropped"])
                 /\ UNCHANGED <<ho_pending_remote_ice, ho_log>>
            ELSE /\ ice_task' = Append(ice_task, [kind |-> kind, at |-> "suspended"])
                 /\ ho_log' = Append(ho_log, Logged("addIceCandidate", n))
                 /\ UNCHANGED ho_pending_remote_ice
    /\ UNCHANGED <<ho_pc, ho_idx, ho_polls, ho_remote_desc_set, ice_gathering_state,
                   ho_clears>>

\* the calls of handle_ice that are suspended in addIceCandidate
LiveSuspended ==
    {n \in DOMAIN ice_task :
        /\ ice_task[n].at = "suspended"
        /\ ~(ho_pc = "pending" /\ ho_pending_remote_ice[ho_idx] = n)}

\* addIceCandidate of a handle_ice call returns or raises, and the call
\* returns
LiveCandidateDone ==
    /\ \E n \in LiveSuspended, out \in Outcomes :
        ice_task' = [ice_task EXCEPT ![n].at = out]
    /\ UNCHANGED <<ho_pc, ho_idx, ho_polls, ho_remote_desc_set, ho_pending_remote_ice,
                   ice_gathering_state, ho_log, ho_clears>>

\* the handle_ice calls that start before the remote description is set
HandleIceCalledEarly == ~ho_remote_desc_set /\ HandleIceCalled

\* the steps of a handle_offer call after its start
OfferSteps ==
    \/ RemoteDescriptionSet
    \/ PendingCandidateDone
    \/ LocalDescriptionSet
    \/ GatherSleepDone

InitHandlers ==
    /\ ho_pc = "none"
    /\ ho_idx = 0
    /\ ho_polls = 0
    /\ ho_remote_desc_set = FALSE
    /\ ho_pending_remote_ice = <<>>
    /\ ice_gathering_state = "new"
    /\ ice_task = <<>>
    /\ ho_log = <<>>
    /\ ho_clears = 0

HandlersOnly ==
    UNCHANGED <<regVars, iceVars, pttVars, trackVars, s3Vars, recVars, lifeVars, turnVars,
                lockVars, nrVars, stVars, connVars, ansVars>>

NextHandlers ==
    \/ HandleOfferCalled /\ HandlersOnly
    \/ RemoteDescriptionSet /\ HandlersOnly
    \/ PendingCandidateDone /\ HandlersOnly
    \/ LocalDescriptionSet /\ HandlersOnly
    \/ GatherSleepDone /\ HandlersOnly
    \/ GatheringCompletes /\ HandlersOnly
    \/ HandleIceCalled /\ HandlersOnly
    \/ LiveCandidateDone /\ HandlersOnly

NextOffer ==
    \/ HandleOfferCalled /\ HandlersOnly
    \/ HandleIceCalledEarly /\ HandlersOnly
    \/ RemoteDescriptionSet /\ HandlersOnly
    \/ PendingCandidateDone /\ HandlersOnly
    \/ LocalDescriptionSet /\ HandlersOnly
    \/ GatherSleepDone /\ HandlersOnly
    \/ GatheringCompletes /\ HandlersOnly

----------------------------------------------------------------------------
(* The no-response timer of one session: _speak and _reset_ptt_timeout,   *)
(* _start_recording and _stop_recording on PTT_START and PTT_END, the     *)
(* timer callback _on_ptt_timeout, the end of the closing utterance in    *)
(* _handle_interview_answer and cleanup.  All of it runs on the session's *)
(* event loop.  The session is the one registered for its room, so        *)
(* remove_session runs its cleanup.  The control channel is open until    *)
(* cleanup closes it.                                                      *)

MaxSpeaks == 2

\* an utterance is a question (_start_interview, or an answer that does not
\* end the interview) or the closing of the interview
SpeakKinds == {"question", "closing"}

Cancel(handles, h) ==
    IF h # 0 /\ handles[h] = "live" THEN [handles EXCEPT ![h] = "cancelled"] ELSE handles

reset_ptt_timeout_NoCancel(handles, timer) == Append(handles, "live")

\* _reset_ptt_timeout: the handles after it; the new handle is the last one
reset_ptt_timeout(handles, timer) == Append(Cancel(handles, timer), "live")

\* cleanup: the flag, the stored timer cancelled (and kept), capture off
Cleanup ==
    /\ nr_cleaned_up' = TRUE
    /\ nr_ptt_active' = (IF nr_cleaned_up THEN nr_ptt_active ELSE FALSE)

\* _speak(text) is called and reaches `await tts_synthesize`
SpeakCalled ==
    /\ ~nr_cleaned_up
    /\ Len(nr_speaks) < MaxSpeaks
    /\ \E k \in SpeakKinds : nr_speaks' = Append(nr_speaks, [kind |-> k, at |-> "synth"])
    /\ UNCHANGED <<nr_ptt_active, nr_timer, nr_handles, nr_cleaned_up, nr_deferred,
                   nr_done_sent>>

\* tts_synthesize returns: play() queues the frames and waits; after
\* cleanup _tts_track is None and the call raises
SpeakSynthesized ==
    /\ \E n \in DOMAIN nr_speaks :
        /\ nr_speaks[n].at = "synth"
        /\ nr_speaks' = [nr_speaks EXCEPT ![n].at =
                            IF nr_cleaned_up THEN "failed" ELSE "play"]
    /\ UNCHANGED <<nr_ptt_active, nr_timer, nr_handles, nr_cleaned_up, nr_deferred,
                   nr_done_sent>>

\* the track's recv() takes the end sentinel and sets the event play()
\* waits for
PlaybackFinished ==
    /\ ~nr_cleaned_up
    /\ \E n \in DOMAIN nr_speaks :
        /\ nr_speaks[n].at = "play"
        /\ nr_speaks' = [nr_speaks EXCEPT ![n].at = "wake"]
    /\ UNCHANGED <<nr_ptt_active, nr_timer, nr_handles, nr_cleaned_up, nr_deferred,
                   nr_done_sent>>

\* play() returns into _speak: AI_DONE, _reset_ptt_timeout; after the
\* closing utterance _handle_interview_answer cancels the timer again and
\* schedules _deferred_remove_session
SpeakReturns ==
    /\ \E n \in DOMAIN nr_speaks :
        /\ nr_speaks[n].at = "wake"
        /\ nr_speaks' = [nr_speaks EXCEPT ![n].at = "done"]
        /\ nr_done_sent' = (IF nr_cleaned_up THEN nr_done_sent ELSE nr_done_sent + 1)
        /\ LET armed == reset_ptt_timeout(nr_handles, nr_timer)
           IN  IF nr_speaks[n].kind = "closing"
               THEN /\ nr_handles' = Cancel(armed, Len(armed))
                    /\ nr_timer' = 0
                    /\ nr_deferred' = TRUE
               ELSE /\ nr_handles' = armed
                    /\ nr_timer' = Len(armed)
                    /\ UNCHANGED nr_deferred
    /\ UNCHANGED <<nr_ptt_active, nr_cleaned_up>>

\* PTT_START on the control channel: _start_recording
PttStart ==
    /\ ~nr_cleaned_up
    /\ nr_ptt_active' = TRUE
    /\ nr_handles' = Cancel(nr_handles, nr_timer)
    /\ nr_timer' = 0
    /\ UNCHANGED <<nr_speaks, nr_cleaned_up, nr_deferred, nr_done_sent>>

\* PTT_END on the control channel, or the capture limit in _on_track:
\* _stop_recording
PttEnd ==
    /\ ~nr_cleaned_up
    /\ nr_ptt_active
    /\ nr_ptt_active' = FALSE
    /\ UNCHANGED <<nr_timer, nr_handles, nr_speaks, nr_cleaned_up, nr_deferred,
                   nr_done_sent>>

\* a live handle comes due: _on_ptt_timeout sends AI_ERROR and calls
\* remove_session, which runs cleanup
PttTimeout ==
    /\ \E h \in DOMAIN nr_handles :
        /\ nr_handles[h] = "live"
        /\ nr_handles' = Cancel([nr_handles EXCEPT ![h] = "fired"], nr_timer)
    /\ Cleanup
    /\ UNCHANGED <<nr_timer, nr_speaks, nr_deferred, nr_done_sent>>

\* _deferred_remove_session comes due
DeferredRemove ==
    /\ nr_deferred
    /\ nr_deferred' = FALSE
    /\ nr_handles' = (IF nr_cleaned_up THEN nr_handles ELSE Cancel(nr_handles, nr_timer))
    /\ Cleanup
    /\ UNCHANGED <<nr_timer, nr_speaks, nr_done_sent>>

InitNoResponse ==
    /\ nr_ptt_active = FALSE
    /\ nr_timer = 0
    /\ nr_handles = <<>>
    /\ nr_speaks = <<>>
    /\ nr_cleaned_up = FALSE
    /\ nr_deferred = FALSE
    /\ nr_done_sent = 0

NoResponseOnly ==
    UNCHANGED <<regVars, iceVars, pttVars, trackVars, s3Vars, recVars, lifeVars, turnVars,
                lockVars, hoVars, stVars, connVars, ansVars>>

NextNoResponse ==
    \/ SpeakCalled /\ NoResponseOnly
    \/ SpeakSynthesized /\ NoResponseOnly
    \/ PlaybackFinished /\ NoResponseOnly
    \/ SpeakReturns /\ NoResponseOnly
    \/ PttStart /\ NoResponseOnly
    \/ PttEnd /\ NoResponseOnly
    \/ PttTimeout /\ NoResponseOnly
    \/ DeferredRemove /\ NoResponseOnly

----------------------------------------------------------------------------
(* The two timers and the end of one session: the no-response timer as    *)
(* above, with _on_datachannel and _start_interview_timer, the timer      *)
(* callback _on_interview_timeout, the interview_ended signal and a       *)
(* removal that comes from outside (the connection state callback or the  *)
(* notify view).  cleanup cancels the handle stored in each of the two    *)
(* attributes.                                                             *)

MaxDcOpens == 2

\* cleanup's `if self._interview_timer: self._interview_timer.cancel()`,
\* skipped when cleanup returns at its guard
CleanupInterviewTimer ==
    interview_handles' = (IF nr_cleaned_up THEN interview_handles
                          ELSE Cancel(interview_handles, interview_timer))

\* cleanup's `if self._ptt_timeout_timer: self._ptt_timeout_timer.cancel()`
CleanupPttTimer ==
    nr_handles' = (IF nr_cleaned_up THEN nr_handles ELSE Cancel(nr_handles, nr_timer))

\* _fire_interview_ended
FireInterviewEnded == ended_signals' = ended_signals + 1

\* the peer opens a data channel: _on_datachannel starts _start_interview
\* and _start_interview_timer
OnDatachannelOpen ==
    /\ ~nr_cleaned_up
    /\ dc_opens < MaxDcOpens
    /\ dc_opens' = dc_opens + 1
    /\ interview_handles' = Append(interview_handles, "live")
    /\ interview_timer' = Len(interview_handles) + 1
    /\ UNCHANGED <<ended_signals, late_timeout, nrVars>>

\* _speak is called; before the closing utterance _handle_interview_answer
\* has sent INTERVIEW_END and called _fire_interview_ended
SessionSpeakCalled ==
    /\ SpeakCalled
    /\ ended_signals' = ended_signals +
            (IF nr_speaks'[Len(nr_speaks')].kind = "closing" THEN 1 ELSE 0)
    /\ UNCHANGED <<dc_opens, interview_timer, interview_handles, late_timeout>>

\* a live handle of the interview timer comes due: _on_interview_timeout
\* sends INTERVIEW_END, calls _fire_interview_ended and remove_session
InterviewTimeout ==
    /\ \E h \in DOMAIN interview_handles :
        /\ interview_handles[h] = "live"
        /\ interview_handles' =
              IF nr_cleaned_up THEN [interview_handles EXCEPT ![h] = "fired"]
              ELSE Cancel([interview_handles EXCEPT ![h] = "fired"], interview_timer)
    /\ FireInterviewEnded
    /\ late_timeout' = (late_timeout \/ nr_cleaned_up)
    /\ CleanupPttTimer
    /\ Cleanup
    /\ UNCHANGED <<dc_opens, interview_timer, nr_timer, nr_speaks, nr_deferred, nr_done_sent>>

\* the no-response timer comes due, with the whole of cleanup
SessionPttTimeout ==
    /\ PttTimeout
    /\ FireInterviewEnded
    /\ late_timeout' = (late_timeout \/ nr_cleaned_up)
    /\ CleanupInterviewTimer
    /\ UNCHANGED <<dc_opens, interview_timer>>

\* _deferred_remove_session comes due, with the whole of cleanup
SessionDeferredRemove ==
    /\ DeferredRemove
    /\ CleanupInterviewTimer
    /\ UNCHANGED <<dc_opens, interview_timer, ended_signals, late_timeout>>

\* remove_session is called from outside the session's timers: by
\* _on_connection_state_change on failed or closed, or by the notify view
OutsideRemove ==
    /\ ~nr_cleaned_up
    /\ CleanupInterviewTimer
    /\ CleanupPttTimer
    /\ Cleanup
    /\ UNCHANGED <<dc_opens, interview_timer, ended_signals, late_timeout,
                   nr_timer, nr_speaks, nr_deferred, nr_done_sent>>

InitSessionTimers ==
    /\ dc_opens = 0
    /\ interview_timer = 0
    /\ interview_handles = <<>>
    /\ ended_signals = 0
    /\ late_timeout = FALSE

\* a step of the session that leaves its interview timer alone
KeepsInterviewTimer == UNCHANGED stVars

SessionTimersOnly ==
    UNCHANGED <<regVars, iceVars, pttVars, trackVars, s3Vars, recVars, lifeVars, turnVars,
                lockVars, hoVars, connVars, ansVars>>

NextSessionTimers ==
    \/ OnDatachannelOpen /\ SessionTimersOnly
    \/ SessionSpeakCalled /\ SessionTimersOnly
    \/ SpeakSynthesized /\ KeepsInterviewTimer /\ SessionTimersOnly
    \/ PlaybackFinished /\ KeepsInterviewTimer /\ SessionTimersOnly
    \/ SpeakReturns /\ KeepsInterviewTimer /\ SessionTimersOnly
    \/ PttStart /\ KeepsInterviewTimer /\ SessionTimersOnly
    \/ PttEnd /\ KeepsInterviewTimer /\ SessionTimersOnly
    \/ SessionPttTimeout /\ SessionTimersOnly
    \/ InterviewTimeout /\ SessionTimersOnly
    \/ SessionDeferredRemove /\ SessionTimersOnly
    \/ OutsideRemove /\ SessionTimersOnly

----------------------------------------------------------------------------
(* The peer connection's state changes and the recorder of a session,     *)
(* over the sessions of one signaling connection.                          *)

\* the states the connectionstatechange event reports while self.peer is set
ConnectionStates == {"connecting", "connected", "disconnected", "failed"}

\* the states RTCPeerConnection moves to from state `from`
ConnectionMoves(from) ==
    CASE from = "new" -> {"connecting"}
      [] from = "connecting" -> {"connected", "failed"}
      [] from = "connected" -> {"disconnected", "failed"}
      [] from = "disconnected" -> {"connected", "failed"}
      [] OTHER -> {}

\* _on_connection_state_change: `elif state in ("failed", "closed")`
removes_session(state) == state \in {"failed", "closed"}

\* a faulty test that never closes the signaling connection
closes_signaling_Never(state) == FALSE

\* _on_connection_state_change: `if state == "connected"`
closes_signaling(state) == state = "connected"

\* _on_connection_state_change of session o, called with the new state
ConnectionStateChange(o, state) ==
    /\ o <= objs
    /\ ~(lc_pc = "offer" /\ lc_session = o)
    /\ o \notin offer_failed
    /\ sess[o].peer = "set"
    /\ state \in ConnectionMoves(conn_state[o])
    /\ conn_state' = [conn_state EXCEPT ![o] = state]
    /\ ws_closing' = (ws_closing \/ closes_signaling(state))
    /\ IF removes_session(state) /\ ~closes_signaling(state)
       THEN LifeSet(remove_session_nested(LifeNow))
       ELSE UNCHANGED <<room_session, sess, obtained, cleanup_calls, teardowns>>
    /\ UNCHANGED <<objs, remover, lc_pc, lc_session, offer_failed, overwritten, life_ops,
                   recorder>>

\* the task stomp_ws.close() scheduled on "connected" has run and the receive
\* loop of _session, at its next receive, finds the websocket closed
StompWsCloseTask ==
    /\ ws_closing
    /\ lc_pc # "offer"
    /\ ws_closing' = FALSE
    /\ IF lc_pc = "recv" THEN LcWsClosed ELSE UNCHANGED lifeVars
    /\ UNCHANGED <<conn_state, recorder>>

\* the peer opens the control channel over the established connection
ChannelOpens(o) ==
    /\ conn_state[o] = "connected"
    /\ SessionInUse(o)
    /\ UNCHANGED connVars

\* _start_interview, scheduled when the control channel opened, reaches
\* `self._recorder = InterviewRecorder(self.room_id); self._recorder.start()`
StartInterview(o) ==
    /\ o <= objs
    /\ sess[o].dc # "none"
    /\ recorder[o] = "none"
    /\ recorder' = [recorder EXCEPT ![o] = "running"]
    /\ UNCHANGED <<lifeVars, conn_state, ws_closing>>

InitConn ==
    /\ conn_state = [o \in SessionObjs |-> "new"]
    /\ ws_closing = FALSE
    /\ recorder = [o \in SessionObjs |-> "none"]

KeepsConn == UNCHANGED connVars

ConnOnly == UNCHANGED <<regVars, iceVars, pttVars, trackVars, s3Vars, recVars, turnVars, lockVars, hoVars, nrVars, stVars, ansVars>>

\* the sessions of one signaling connection with their connection states and
\* their recorders
NextConn ==
    \/ LcOffer /\ KeepsConn /\ ConnOnly
    \/ LcOfferDone /\ KeepsConn /\ ConnOnly
    \/ LcWsClosed /\ KeepsConn /\ ConnOnly
    \/ StompWsCloseTask /\ ConnOnly
    \/ LcWaitDone /\ KeepsConn /\ ConnOnly
    \/ \E o \in SessionObjs : ChannelOpens(o) /\ ConnOnly
    \/ \E o \in SessionObjs : StartInterview(o) /\ ConnOnly
    \/ \E o \in SessionObjs : PeerCloseTask(o) /\ KeepsConn /\ ConnOnly
    \/ \E o \in SessionObjs, state \in ConnectionStates :
           ConnectionStateChange(o, state) /\ ConnOnly

\* the same with the timers of the sessions coming due
NextSessionEnds ==
    \/ NextConn
    \/ \E o \in SessionObjs, t \in DOMAIN TimerMessage :
           TimerFires(o, t) /\ KeepsConn /\ ConnOnly

\* a connection that is being established, or is interrupted, gets its next
\* state
ConnectionSettles(o) ==
    /\ conn_state[o] # "connected"
    /\ \E state \in ConnectionStates : ConnectionStateChange(o, state)

----------------------------------------------------------------------------
(* The answer-processing tasks of one session.  Every PTT_END with frames *)
(* schedules a task _process_stt; the tasks run on one event loop and     *)
(* interleave at their awaits.                                            *)

NumAnswerTasks == 3

\* InterviewSession.max_questions, from the interview setting
max_questions == 2

AnswerTasks == 1..NumAnswerTasks

\* InterviewSession.is_last_question
is_last_question(count) == count >= max_questions

\* _start_interview creates the InterviewSession and reaches
\* `await self._interview.generate_first_question()`
InterviewCreated ==
    /\ iv_state = "none"
    /\ iv_state' = "first"
    /\ UNCHANGED <<question_count, iv_finished, ans_pc, sent_numbers, closings>>

\* generate_first_question returns: add_question, then AI_QUESTION is sent
FirstQuestion ==
    /\ iv_state = "first"
    /\ iv_state' = "asked"
    /\ question_count' = question_count + 1
    /\ sent_numbers' = sent_numbers \cup {question_count'}
    /\ UNCHANGED <<iv_finished, ans_pc, closings>>

\* _stop_recording schedules _process_stt, which reaches
\* `await stt_transcribe(wav_bytes)`
AnswerStart(t) ==
    /\ ans_pc[t] = "idle"
    /\ \A u \in AnswerTasks : u < t => ans_pc[u] # "idle"
    /\ ans_pc' = [ans_pc EXCEPT ![t] = "stt"]
    /\ UNCHANGED <<iv_state, question_count, iv_finished, sent_numbers, closings>>

\* stt_transcribe returns or raises; with a text and an unfinished
\* interview, process_answer runs up to its `await call_gemini_json`
\* (before the first question history[-1] raises)
AnswerTranscribed(t) ==
    /\ ans_pc[t] = "stt"
    /\ \E ok \in BOOLEAN :
        ans_pc' = [ans_pc EXCEPT ![t] =
                     IF ~ok \/ iv_state # "asked" \/ iv_finished THEN "done"
                     ELSE IF is_last_question(question_count) THEN "closing"
                     ELSE "question"]
    /\ UNCHANGED <<iv_state, question_count, iv_finished, sent_numbers, closings>>

\* call_gemini_json returns in process_answer: the counter is incremented
\* (follow-up or new topic) and AI_QUESTION carries it; or the call raises
QuestionGenerated(t) ==
    /\ ans_pc[t] = "question"
    /\ ans_pc' = [ans_pc EXCEPT ![t] = "done"]
    /\ \E ok \in BOOLEAN :
        IF ok
        THEN /\ question_count' = question_count + 1
             /\ sent_numbers' = sent_numbers \cup {question_count'}
        ELSE UNCHANGED <<question_count, sent_numbers>>
    /\ UNCHANGED <<iv_state, iv_finished, closings>>

\* call_gemini_json returns in _generate_closing: finished is set and
\* INTERVIEW_END is sent; or the call raises
ClosingGenerated(t) ==
    /\ ans_pc[t] = "closing"
    /\ ans_pc' = [ans_pc EXCEPT ![t] = "done"]
    /\ \E ok \in BOOLEAN :
        IF ok
        THEN /\ iv_finished' = TRUE
             /\ closings' = closings + 1
        ELSE UNCHANGED <<iv_finished, closings>>
    /\ UNCHANGED <<iv_state, question_count, sent_numbers>>

InitAnswers ==
    /\ iv_state = "none"
    /\ question_count = 0
    /\ iv_finished = FALSE
    /\ ans_pc = [t \in AnswerTasks |-> "idle"]
    /\ sent_numbers = {}
    /\ closings = 0

AnswersOnly == UNCHANGED <<regVars, iceVars, pttVars, trackVars, s3Vars, recVars, lifeVars, turnVars, lockVars, hoVars, nrVars, stVars, connVars>>

NextAnswers ==
    \/ InterviewCreated /\ AnswersOnly
    \/ FirstQuestion /\ AnswersOnly
    \/ \E t \in AnswerTasks : AnswerStart(t) /\ AnswersOnly
    \/ \E t \in AnswerTasks : AnswerTranscribed(t) /\ AnswersOnly
    \/ \E t \in AnswerTasks : QuestionGenerated(t) /\ AnswersOnly
    \/ \E t \in AnswerTasks : ClosingGenerated(t) /\ AnswersOnly

----------------------------------------------------------------------------
(* Specifications *)

Init ==
    /\ InitRegistry /\ InitIce /\ InitPTT /\ InitTrack /\ InitS3
    /\ InitRecorder /\ InitLife /\ InitTurn /\ InitLock
    /\ InitHandlers /\ InitNoResponse /\ InitSessionTimers /\ InitConn /\ InitAnswers

SpecRegistry == Init /\ [][NextRegistry]_vars

SpecIce == Init /\ [][NextIce]_vars

SpecPTT == Init /\ [][NextPTT]_vars

SpecTrack == Init /\ [][NextTrack]_vars

\* the transport keeps calling recv(), and a play() whose event is set resumes
SpecTrackLive ==
    /\ SpecTrack
    /\ WF_vars(Recv /\ TrackOnly)
    /\ \A p \in PlayIds : WF_vars(PlayReturn(p) /\ TrackOnly)

SpecS3 == Init /\ [][NextS3]_vars

SpecRecorder == Init /\ [][NextRecorder]_vars

SpecLife == Init /\ [][NextLife]_vars

SpecLifeTimers == Init /\ [][NextLifeTimers]_vars

SpecTurn == Init /\ [][NextTurn]_vars

SpecLock == Init /\ [][NextLock]_vars

SpecHandlers == Init /\ [][NextHandlers]_vars

SpecNoResponse == Init /\ [][NextNoResponse]_vars

SpecAnswers == Init /\ [][NextAnswers]_vars

\* the event loop runs its ready tasks and due timers, and a connection
\* attempt ends by connecting or failing; the peer is free to keep a
\* connection up, to open no control channel and to send nothing
SpecSessionEnds ==
    /\ Init /\ [][NextSessionEnds]_vars
    /\ WF_vars(LcOfferDone /\ KeepsConn /\ ConnOnly)
    /\ WF_vars(LcWaitDone /\ KeepsConn /\ ConnOnly)
    /\ WF_vars(StompWsCloseTask /\ ConnOnly)
    /\ \A o \in SessionObjs :
          /\ WF_vars(StartInterview(o) /\ ConnOnly)
          /\ WF_vars(PeerCloseTask(o) /\ KeepsConn /\ ConnOnly)
          /\ WF_vars(ConnectionSettles(o) /\ ConnOnly)
          /\ \A t \in DOMAIN TimerMessage :
                WF_vars(TimerFires(o, t) /\ KeepsConn /\ ConnOnly)

SpecConn == Init /\ [][NextConn]_vars

SpecSessionTimers == Init /\ [][NextSessionTimers]_vars

\* one handle_offer call with the candidates that arrive before its remote
\* description is set; its awaits return or raise, and its sleeps end
SpecOffer == Init /\ [][NextOffer]_vars /\ WF_vars(OfferSteps /\ HandlersOnly)

----------------------------------------------------------------------------
(* Properties of the session registry *)

\* C1: the registry never holds more than MAX_CONCURRENT_SESSIONS sessions,
\* and a start() issued while it holds that many starts no session thread.
C1_RegistryNeverExceedsLimit ==
    /\ [](Cardinality(sessions) <= MAX_CONCURRENT_SESSIONS)
    /\ [][AtCapacity => \A r \in Rooms : thread[r] = "none" => thread'[r] = "none"]_vars

\* C2: admission is atomic: whenever start(room) has returned True and the
\* room's thread is running, the room's slot is counted in the registry.
C2_AdmittedSlotIsCounted ==
    \A r \in Rooms : thread[r] = "awaiting_offer" => r \in sessions

----------------------------------------------------------------------------
(* Properties of the signaling receive loop *)

\* the well-formed candidates that arrived before the first answer was sent
EarlyCandidates == SelectSeq(ice_arrived, LAMBDA a : a.before_answer /\ a.ok)

IsEarly(id) == \E i \in 1..Len(EarlyCandidates) : EarlyCandidates[i].id = id

\* the addIceCandidate calls of the first session for those candidates
EarlyApplied ==
    SelectSeq(peer_log, LAMBDA e : e.op = "addIceCandidate" /\ e.session = 1
                                   /\ IsEarly(e.id))

\* C3: once the first offer has been handled, every candidate that arrived
\* before that was applied to the peer connection exactly once, in arrival
\* order, and after setRemoteDescription.
C3_EarlyCandidatesApplied ==
    (session = 1 /\ answers = 1) =>
        /\ Len(EarlyApplied) = Len(EarlyCandidates)
        /\ \A i \in 1..Len(EarlyApplied) : EarlyApplied[i].id = EarlyCandidates[i].id
        /\ \A i \in 1..Len(peer_log) :
              (peer_log[i].op = "addIceCandidate" /\ peer_log[i].session = 1)
              => \E j \in 1..(i - 1) :
                    /\ peer_log[j].op = "setRemoteDescription"
                    /\ peer_log[j].session = 1

----------------------------------------------------------------------------
(* Properties of the push-to-talk capture *)

\* an audio frame was handled in this step
FrameStep == n_frames' = n_frames + 1

\* the control message handled in this step was PTT_END
PttEndStep == n_msgs' = n_msgs + 1 /\ ptt_event'.type = "PTT_END"

\* a _process_stt task started in this step
SttStartStep == stt_tasks # <<>> /\ stt_tasks' = Tail(stt_tasks)

BufferWithinCap ==
    /\ BLen(BJoin(audio_frames)) <= MAX_AUDIO_BUFFER_BYTES
    /\ audio_buffer_size = BLen(BJoin(audio_frames))

WouldExceed == audio_buffer_size + ptt_event'.len > MAX_AUDIO_BUFFER_BYTES

DurationReached == now - ptt_recording_start >= PTT_MAX_RECORDING_DURATION

ExpectedWav ==
    [nchannels |-> audio_format[2], sampwidth |-> 2, framerate |-> audio_format[1],
     frames |-> BJoin(audio_frames)]

\* PTT_END with frames buffered schedules one task with the container of the
\* frames and empties the buffer
EndSchedulesContainer ==
    (PttEndStep /\ audio_frames # <<>>)
        => /\ stt_tasks' = Append(stt_tasks, ExpectedWav)
           /\ audio_frames' = <<>>
           /\ audio_buffer_size' = 0
           /\ ~ptt_active'

\* C5, as claimed: PTT_START, n >= 1 buffered frames and PTT_END result in
\* exactly one transcription call, on one container holding the n frames in
\* arrival order, and the buffer is empty afterwards.
C5_OneTranscriptionPerCapture ==
    [][/\ EndSchedulesContainer
       /\ IF SttStartStep
          THEN stt_calls' = Append(stt_calls, Head(stt_tasks))
          ELSE stt_calls' = stt_calls]_vars

\* C5, amended: PTT_END with n >= 1 frames buffered schedules exactly one
\* task with one container holding the n frames in arrival order and empties
\* the buffer; the task calls the transcription function exactly once, on
\* that container, if the container holds at least
\* int(sample_rate * channels * 2 * 0.15) bytes of audio for the sample
\* format current when the task runs, and otherwise sends PTT_TOO_SHORT and
\* makes no call.
C5_OneTranscriptionUnlessTooShort ==
    [][/\ EndSchedulesContainer
       /\ IF SttStartStep
          THEN IF BLen(Head(stt_tasks).frames)
                    >= (audio_format[1] * audio_format[2] * 2 * 15) \div 100
               THEN stt_calls' = Append(stt_calls, Head(stt_tasks)) /\ dc_out' = dc_out
               ELSE /\ stt_calls' = stt_calls
                    /\ dc_out' = IF dc_open THEN Append(dc_out, "PTT_TOO_SHORT")
                                 ELSE dc_out
          ELSE stt_calls' = stt_calls]_vars

\* three frames captured before any timeout were transcribed as one container
C5_Witness ==
    /\ now = 0
    /\ n_frames = 3
    /\ Len(stt_calls) = 1
    /\ stt_calls[1].frames = <<Run("frame", 1, 0, 1920), Run("frame", 2, 0, 14400),
                               Run("frame", 3, 0, 1920)>>
    /\ audio_frames = <<>>
    /\ ~ptt_active

\* C6: PTT_END with no frame buffered only sets capture inactive: no task is
\* scheduled, no call is made, no message is sent, and the buffer and the
\* byte counter stay empty.
C6_StopOnEmptyIsNoOp ==
    [][(PttEndStep /\ audio_frames = <<>>)
        => /\ ~ptt_active'
           /\ audio_frames' = <<>>
           /\ audio_buffer_size' = 0
           /\ UNCHANGED <<stt_tasks, stt_inflight, stt_calls, dc_out, audio_format,
                          ptt_recording_start, ptt_timeout_timer, now, dc_open,
                          n_frames>>]_vars

\* PTT_END was handled twice in a row on an empty buffer
C6_Witness ==
    /\ ptt_event.type = "PTT_END"
    /\ n_msgs = 2
    /\ n_frames = 0
    /\ ~ptt_active
    /\ stt_tasks = <<>>
    /\ stt_calls = <<>>
    /\ dc_out = <<>>

----------------------------------------------------------------------------
(* Properties of the playback track *)

\* the i-th of the frames of an utterance of n bytes played by call p
ExpectedFrame(p, n, i) ==
    IF i * 1920 <= n
    THEN <<Run("pcm", p, (i - 1) * 1920, 1920)>>
    ELSE <<Run("pcm", p, (i - 1) * 1920, n - (i - 1) * 1920),
           Run("zero", 0, 0, i * 1920 - n)>>

\* ceil(n / 1920) frames of 1920 bytes in input order, the last one
\* zero-padded, then one end sentinel
IsPlaybackOf(items, p, n) ==
    LET k == CeilDiv(n, 1920)
    IN  /\ Len(items) = k + 1
        /\ \A i \in 1..k : /\ items[i].kind = "chunk"
                           /\ items[i].data = ExpectedFrame(p, n, i)
                           /\ BLen(items[i].data) = 1920
        /\ items[k + 1].kind = "end"

\* what recv() has dequeued of the items play() call p put
DequeuedOf(p) == SelectSeq(dequeued, LAMBDA x : x.play = p)

\* C7: play(pcm) enqueues exactly ceil(len(pcm)/1920) frames of 1920 bytes in
\* input order, the last one zero-padded, followed by exactly one end
\* sentinel, and it does not return before recv has dequeued every one of
\* those frames and the sentinel.
C7_PlayEnqueuesFramesAndWaits ==
    /\ [][\A p \in PlayIds :
            (plays[p].pc = "idle" /\ plays'[p].pc = "waiting")
                => IsPlaybackOf(queue', p, plays'[p].len)]_vars
    /\ [](\A p \in PlayIds :
            plays[p].pc = "returned" => IsPlaybackOf(DequeuedOf(p), p, plays[p].len))

\* a play of 3000 bytes has returned: two frames, the second 1080 data bytes
\* and 840 zero bytes, and the sentinel were dequeued
C7_Witness ==
    /\ plays[1].pc = "returned"
    /\ plays[1].len = 3000
    /\ dequeued = <<Chunk(1, <<Run("pcm", 1, 0, 1920)>>),
                    Chunk(1, <<Run("pcm", 1, 1920, 1080), Run("zero", 0, 0, 840)>>),
                    Sentinel(1)>>

\* C8: every call of play() eventually returns while the transport keeps
\* calling recv(), also when a play() starts while an earlier one is waiting.
C8_PlayEventuallyReturns ==
    \A p \in PlayIds : (plays[p].pc = "waiting") ~> (plays[p].pc = "returned")

\* recv() was called in this step and took the oldest item from the queue
RecvDequeues == queue # <<>> /\ queue' = Tail(queue) /\ dequeued' # dequeued

\* C21: each recv() emits one frame and advances the frame counter by one:
\* the oldest queued chunk if the queue is not empty, silence if it is
\* empty, and silence when the item is the end sentinel, in which case the
\* completion event of the play that waits for that sentinel is set.
C21_RecvEmitsOldestAndMarksCompletion ==
    [][/\ frame_count' # frame_count =>
            /\ frame_count' = frame_count + 1
            /\ queue = <<>> => (last_frame' = SILENCE /\ queue' = <<>>)
            /\ queue # <<>> => RecvDequeues
       /\ RecvDequeues =>
            /\ dequeued' = Append(dequeued, Head(queue))
            /\ Head(queue).kind = "chunk" => last_frame' = Head(queue).data
            /\ Head(queue).kind = "end" =>
                 (last_frame' = SILENCE /\ Head(queue).play \in events_set')]_vars

----------------------------------------------------------------------------
(* Properties of the multipart upload client *)

\* C9: after every write() the buffer holds fewer than MIN_PART_SIZE bytes,
\* every part uploaded by write() is exactly MIN_PART_SIZE bytes, and the
\* parts are recorded with consecutive part numbers from 1 in upload order.
C9_WriteFlushesFullParts ==
    /\ [][s3_writes' = s3_writes + 1 => BLen(s3_buf') < 5 * 1024 * 1024]_vars
    /\ [](/\ \A i \in 1..Len(s3_store) :
                /\ s3_store[i].PartNumber = i
                /\ s3_store[i].by = "write" => BLen(s3_store[i].Body) = 5 * 1024 * 1024
          /\ Len(s3_parts) = Len(s3_store)
          /\ \A i \in 1..Len(s3_parts) :
                /\ s3_parts[i].PartNumber = i
                /\ s3_parts[i].ETag = s3_store[i].ETag
          /\ s3_part_number = Len(s3_parts) + 1)

\* 4 MiB then 2 MiB were written: one part of 5 MiB is uploaded and 1 MiB is
\* buffered
C9_Witness ==
    /\ s3_last.op = "write"
    /\ s3_writes = 2
    /\ s3_written = <<Run("write", 1, 0, 4 * MiB), Run("write", 2, 0, 2 * MiB)>>
    /\ Len(s3_store) = 1
    /\ s3_store[1].Body = <<Run("write", 1, 0, 4 * MiB), Run("write", 2, 0, 1 * MiB)>>
    /\ s3_buf = <<Run("write", 2, 1 * MiB, 1 * MiB)>>

\* C10: after writes of at least one byte in total, complete() uploads the
\* buffered rest as the final part, the parts in part-number order hold
\* exactly the bytes written in write order, and the finalize request lists
\* the parts in that order.
C10_CompleteUploadsAllBytes ==
    /\ [][(s3_last'.op = "complete" /\ s3_last.op # "complete" /\ s3_written # <<>>)
            => /\ s3_remote' = "completed"
               /\ s3_buf' = <<>>
               /\ s3_buf # <<>> =>
                    /\ Len(s3_store') = Len(s3_store) + 1
                    /\ s3_store'[Len(s3_store')].Body = s3_buf
                    /\ SubSeq(s3_store', 1, Len(s3_store)) = s3_store]_vars
    /\ [](s3_remote = "completed"
            => /\ ObjectBytes(s3_final, s3_store) = s3_written
               /\ \A i \in 1..Len(s3_store) : s3_store[i].PartNumber = i
               /\ Len(s3_final) = Len(s3_store)
               /\ \A i \in 1..Len(s3_final) :
                    /\ s3_final[i].PartNumber = i
                    /\ s3_final[i].ETag = s3_store[i].ETag)

\* 4 MiB then 2 MiB were written and completed: the final part is 1 MiB
C10_Witness ==
    /\ s3_remote = "completed"
    /\ s3_written = <<Run("write", 1, 0, 4 * MiB), Run("write", 2, 0, 2 * MiB)>>
    /\ Len(s3_store) = 2
    /\ s3_store[2].Body = <<Run("write", 2, 1 * MiB, 1 * MiB)>>
    /\ s3_store[2].by = "complete"
    /\ Len(s3_final) = 2

----------------------------------------------------------------------------
(* Properties of the recorder *)

\* the recorder call made in this step
RecCall(op) == rec_ops' = rec_ops + 1 /\ rec_last'.op = op

\* a recording was started and stopped
RecStopped == s3_upload_id /\ ~rec_running

RECURSIVE TrackPts(_, _)
TrackPts(frames, t) ==
    IF frames = <<>> THEN <<>>
    ELSE IF Head(frames).track = t
    THEN <<Head(frames).pts>> \o TrackPts(Tail(frames), t)
    ELSE TrackPts(Tail(frames), t)

\* C20: the timestamps the recorder gives to frames are strictly increasing
\* per track: the video frames get 0, 1, 2, ... and the audio frames 0,
\* SAMPLES_PER_FRAME, 2 * SAMPLES_PER_FRAME, ..., whatever timestamps the
\* frames arrived with and whether or not encoding an earlier frame failed.
C20_TimestampsCountPerTrack ==
    LET v == TrackPts(rec_frames, "video")
        a == TrackPts(rec_frames, "audio")
    IN  /\ \A i \in DOMAIN v : v[i] = i - 1
        /\ \A i \in DOMAIN a : a[i] = (i - 1) * SAMPLES_PER_FRAME
        /\ rec_video_pts = Len(v)
        /\ rec_audio_pts = Len(a) * SAMPLES_PER_FRAME

\* a video frame failed to encode, audio frames got their timestamps,
\* and the video frame pushed last, which arrived with a large timestamp,
\* got the timestamp after that of the failed frame
C20_Witness ==
    /\ rec_last.op = "push_video"
    /\ rec_last.pts = 90000
    /\ rec_frames # <<>>
    /\ Len(TrackPts(rec_frames, "audio")) >= 2
    /\ rec_frames[Len(rec_frames)].track = "video"
    /\ rec_frames[Len(rec_frames)].out = "emit"
    /\ rec_frames[Len(rec_frames)].pts = 1
    /\ \E i \in DOMAIN rec_frames :
         /\ rec_frames[i].track = "video" /\ rec_frames[i].out = "encode_raises"
         /\ rec_frames[i].pts = 0
    /\ Len(TrackPts(rec_frames, "audio")) >= 2

----------------------------------------------------------------------------
(* Properties of session teardown *)

\* a step that is the locked block of a remove_session call
IsPopStep == life_ops' # life_ops /\ cleanup_calls' = cleanup_calls

\* a step in which caller c runs the cleanup of the session it popped
IsRemoveCleanupStep(c) == remover[c].pc = "popped" /\ remover'[c].pc = "idle"

\* the callers of remove_session that hold object o between pop and cleanup
Holders(o) == {c \in Removers : remover[c].pc = "popped" /\ remover[c].s = o}

\* C13: remove_session removes the room's entry if there is one and then,
\* outside the locked block, calls cleanup on exactly the session it removed;
\* for an absent room it changes nothing; however many calls are made, at
\* most one of them obtains a given session, and a session that left the
\* registry through remove_session was obtained by exactly one call.
C13_RemoveSessionCleansRemovedSessionOnce ==
    /\ [][ /\ IsPopStep =>
                /\ room_session' = 0
                /\ sess' = sess /\ teardowns' = teardowns
                /\ room_session = 0 => (remover' = remover /\ obtained' = obtained)
                /\ room_session # 0 =>
                     /\ obtained' = [obtained EXCEPT ![room_session] = @ + 1]
                     /\ \E c \in Removers :
                          /\ remover[c].pc = "idle"
                          /\ remover' = [remover EXCEPT
                                           ![c] = [pc |-> "popped", s |-> room_session]]
           /\ \A c \in Removers : IsRemoveCleanupStep(c) =>
                /\ cleanup_calls'[remover[c].s] > cleanup_calls[remover[c].s]
                /\ sess'[remover[c].s].cleaned_up
                /\ \A o \in SessionObjs \ {remover[c].s, room_session} :
                     cleanup_calls'[o] = cleanup_calls[o] /\ sess'[o] = sess[o]
         ]_vars
    /\ [](\A o \in SessionObjs :
            /\ obtained[o] <= 1
            /\ Cardinality(Holders(o)) <= obtained[o]
            /\ Holders(o) # {} => room_session # o
            /\ (o <= objs /\ room_session # o /\ o \notin overwritten) => obtained[o] = 1)

\* two calls of remove_session were made and no direct cleanup call: one
\* call obtained the session and cleaned it up, the other found no entry
C13_Witness ==
    /\ life_ops >= 2
    /\ \A c \in Removers : remover[c].pc = "idle"
    /\ \E o \in SessionObjs :
         /\ obtained[o] = 1 /\ cleanup_calls[o] = 1 /\ teardowns[o] = 1
         /\ \A p \in SessionObjs \ {o} : cleanup_calls[p] = 0 /\ obtained[p] = 0

\* the fields of a session after the teardown steps of cleanup() ran once
\* with peer.close() run to completion inside the call
TornDownSync(f) ==
    [teardown_fields(f) EXCEPT !.connection = "closed", !.peer = "None", !.closed = TRUE]

\* C14: the teardown steps of cleanup() (cancel timers, clear the capture
\* buffer, stop the track, close the channel and the peer connection, set
\* closed) run at most once per session; a call made on a session that is
\* already cleaned up returns at the guard and leaves the session as it was,
\* and so does the call re-entered from the peer's 'closed' event while the
\* first call is still tearing down.
C14_CleanupTearsDownAtMostOnce ==
    /\ [](\A o \in SessionObjs :
            /\ teardowns[o] <= 1
            /\ teardowns[o] <= cleanup_calls[o]
            /\ sess[o].cleaned_up <=> teardowns[o] = 1)
    /\ [][\A o \in SessionObjs :
            /\ (sess[o].cleaned_up /\ cleanup_calls'[o] > cleanup_calls[o]) =>
                 (sess'[o] = sess[o] /\ teardowns'[o] = teardowns[o])
            /\ (~sess[o].cleaned_up /\ cleanup_calls'[o] = cleanup_calls[o] + 2) =>
                 (sess'[o] = TornDownSync(sess[o]) /\ teardowns'[o] = 1)
         ]_vars

\* two calls were started from outside on one session and three calls were
\* made on it in all: one of them was re-entered during the teardown, one
\* came after it, and the teardown ran once
C14_Witness ==
    \E o \in SessionObjs :
        /\ life_ops = 2
        /\ cleanup_calls[o] = 3
        /\ teardowns[o] = 1
        /\ sess[o].closed

\* C15: when handling an offer fails, the session is torn down: the room is
\* not left in the registry, no timer and no open peer connection remains,
\* and the signaling thread is not left waiting for a closed event that
\* nobody sets.
C15_FailedOfferIsTornDown ==
    \A o \in offer_failed :
        /\ room_session # o
        /\ sess[o].connection # "open"
        /\ sess[o].interview_timer # "armed" /\ sess[o].ptt_timeout_timer # "armed"
        /\ (lc_pc = "wait_closed" /\ lc_session = o) => sess[o].closed

\* C22: a WEBRTC_OFFER that arrives for a room whose session already exists
\* does not create a second session, does not replace the registered
\* session, and leaves the existing session's state unchanged.
C22_OfferOnlyWhileAwaiting ==
    [][(lc_pc = "recv" /\ lc_pc' = "offer" /\ room_session # 0)
        => /\ objs' = objs
           /\ room_session' = room_session
           /\ lc_session' = lc_session
           /\ sess' = sess]_vars

\* a timer of session o fired in this step
Fired(o, t) == sess[o][t] = "armed" /\ sess'[o][t] = "fired"

\* C23: when the interview-duration timer or the no-response timer of a
\* session fires, the terminal message (INTERVIEW_END, AI_ERROR) is sent on
\* its control channel while the channel is open, and afterwards the room
\* is absent from the registry and the session is cleaned up.
C23_TimerSendsThenRemoves ==
    [][\A o \in SessionObjs, t \in DOMAIN TimerMessage :
         Fired(o, t) =>
            /\ sess[o].dc = "open" => sess'[o].sent = TimerMessage[t]
            /\ room_session' = 0
            /\ sess'[o].cleaned_up /\ sess'[o].closed]_vars

----------------------------------------------------------------------------
(* Properties of an answer turn *)

\* C16: when transcription, next-turn generation or synthesis fails during
\* a turn, AI_ERROR is sent on the control channel, no exception ends the
\* turn's task, and the session stays registered.
C16_CollaboratorFailureSendsAiError ==
    (turn_pc = "idle" /\ turn_failed # {}) =>
        /\ \E i \in DOMAIN turn_out : turn_out[i] = "AI_ERROR"
        /\ turn_escaped = 0
        /\ turn_removal # "done"

----------------------------------------------------------------------------
(* Properties of malformed signaling frames *)

\* the frames that carry no object with a recognised type
MalformedTypes == {"NO_SEPARATOR", "EMPTY_BODY", "NOT_JSON", "JSON_FALSY",
                   "JSON_NOT_OBJECT", "OTHER"}

\* C17: receiving a malformed frame (no blank-line separator, empty body,
\* body that is not JSON, or JSON that is not an object with a recognised
\* type) is a no-op: the receive loop goes on to the next frame and the
\* session state is unchanged.
C17_MalformedFrameIsNoOp ==
    [][ (sig_pc = "recv" /\ ws_in # <<>> /\ ws_in' = Tail(ws_in)
         /\ Head(ws_in).type \in MalformedTypes)
        => (sig_pc' = "recv"
            /\ UNCHANGED <<session, remote_desc_set, pending_remote_ice, peer_log>>)
      ]_vars

----------------------------------------------------------------------------
(* Properties of the recording time limit *)

\* an audio frame arrives while capture is active and the time since the
\* capture started has reached PTT_MAX_RECORDING_DURATION
TimeoutStep == FrameStep /\ ptt_active /\ DurationReached

\* the container of the frames buffered, in the format of the arriving frame
TimeoutWav ==
    [nchannels |-> audio_format'[2], sampwidth |-> 2, framerate |-> audio_format'[1],
     frames |-> BJoin(audio_frames)]

\* the task scheduled by the time limit starts: the time limit was the last
\* event, one task is waiting, and PTT_START is the only control message
\* handled so far, so that no other stop can have scheduled the task
TimeoutTaskStart ==
    SttStartStep /\ ptt_event.type = "FRAME_TIMEOUT" /\ Len(stt_tasks) = 1 /\ n_msgs = 1

----------------------------------------------------------------------------
(* Properties of the registry lock *)

\* C24: every read or write of the registry map (capacity check, insertion,
\* lookup, size query, removal) is made while holding the registry lock, and
\* session teardown is never executed while the lock is held.
C24_RegistryAccessUnderLock ==
    /\ lk_unlocked = {}
    /\ ~lk_teardown_locked

----------------------------------------------------------------------------
(* Properties of handle_offer and handle_ice *)

\* the positions of ho_log at which a candidate reached addIceCandidate
Reached == {i \in DOMAIN ho_log : ho_log[i].op = "addIceCandidate"}

C26_PendingQueueDrainedOnce ==
    /\ [][/\ Len(ho_pending_remote_ice') > Len(ho_pending_remote_ice) => ~ho_remote_desc_set
          /\ ho_remote_desc_set => ho_remote_desc_set'
          /\ ho_clears' # ho_clears =>
                /\ ho_remote_desc_set'
                /\ ho_pending_remote_ice' = <<>>
                /\ \A n \in DOMAIN ice_task' : ice_task'[n].at # "buffered"]_vars
    /\ [](/\ ho_clears <= 1
          /\ ho_pc \in {"sdp", "poll", "returned"} => ho_clears = 1
          /\ ho_clears = 1 => ho_pending_remote_ice = <<>>
          /\ ho_pc = "returned" => ho_pending_remote_ice = <<>>)

\* handle_offer has returned after handing the buffered candidate 1 to the
\* peer connection, and a later candidate was applied at once
C26_Witness ==
    /\ ho_pc = "returned"
    /\ ho_clears = 1
    /\ Len(ho_log) >= 2
    /\ ho_log[1].op = "setRemoteDescription"
    /\ ho_log[2] = Logged("addIceCandidate", 1)
    /\ ho_log[Len(ho_log)].op = "addIceCandidate"
    /\ ho_pending_remote_ice = <<>>

\* the buffered calls at positions i..j of the queue all fail to parse
AllBadParse(i, j) ==
    \A k \in i..j : ice_task[ho_pending_remote_ice[k]].kind = "bad_parse"

\* handle_offer leaves position i - 1 of its loop: the next buffered call
\* whose candidate parses is handed to addIceCandidate, or there is none
\* and handle_offer goes on to addTrack and createAnswer
LoopGoesOn(i) ==
    \/ /\ ho_pc' = "pending"
       /\ ho_idx' >= i
       /\ AllBadParse(i, ho_idx' - 1)
       /\ ho_log' = Append(IF ho_pc = "setRemote"
                           THEN Append(ho_log, Logged("setRemoteDescription", 0))
                           ELSE ho_log,
                           Logged("addIceCandidate", ho_pending_remote_ice[ho_idx']))
    \/ /\ ho_pc' = "sdp"
       /\ AllBadParse(i, Len(ho_pending_remote_ice))
       /\ ho_log'[Len(ho_log')] = Logged("addTrack", 0)

\* C27: if parsing or applying one ICE candidate fails, buffered or live,
\* only that candidate is dropped: the remaining buffered candidates are
\* still applied in order, handle_offer still goes on towards its answer,
\* and no exception leaves a handler because of a candidate.
C27_BadCandidateOnlyDropsItself ==
    /\ [][/\ ho_pc = "pending" /\ ice_task' # ice_task /\ ho_idx' # ho_idx =>
                LoopGoesOn(ho_idx + 1)
          /\ ho_pc = "setRemote" /\ ho_remote_desc_set' => LoopGoesOn(1)
          /\ ho_pc # "raised" /\ ho_pc' = "raised" =>
                (ho_pc \in {"setRemote", "sdp"} /\ ice_task' = ice_task)
          /\ \A n \in DOMAIN ice_task :
                ice_task[n].at # "dropped" /\ ice_task'[n].at = "dropped" =>
                    \/ ice_task[n].kind = "bad_parse"
                    \/ ice_task[n].at = "suspended"]_vars
    /\ [](\A n \in DOMAIN ice_task :
            /\ ice_task[n].kind = "parses" /\ ice_task[n].at # "buffered" =>
                  \E i \in Reached : ho_log[i].id = n
            /\ ho_clears = 1 => ice_task[n].at # "buffered")

\* the buffered candidate 1 did not parse, the buffered candidate 2 was
\* applied and the answer was sent
C27_Witness ==
    /\ ho_pc = "returned"
    /\ Len(ice_task) >= 2
    /\ ice_task[1] = [kind |-> "bad_parse", at |-> "dropped"]
    /\ ice_task[2].at = "applied"
    /\ ho_log[1].op = "setRemoteDescription"
    /\ ho_log[2] = Logged("addIceCandidate", 2)
    /\ ho_log[Len(ho_log)].op = "WEBRTC_ANSWER"

\* the number of WEBRTC_ANSWER frames sent
AnswersSent == Cardinality({i \in DOMAIN ho_log : ho_log[i].op = "WEBRTC_ANSWER"})

\* the answer frame is sent in this step
AnswerStep == Len(ho_log') > Len(ho_log) /\ ho_log'[Len(ho_log')].op = "WEBRTC_ANSWER"

----------------------------------------------------------------------------
(* Properties of the no-response timer *)

\* the handles of the no-response timer that are scheduled and not cancelled
LiveTimers == {h \in DOMAIN nr_handles : nr_handles[h] = "live"}

\* C29: handling PTT_START leaves the no-response timer disarmed, and it
\* stays disarmed for as long as capture remains active, so that the
\* timeout never fires while the peer is capturing an answer, including
\* when PTT_START arrives while a question is still being played.
C29_NoTimerWhileCapturing ==
    nr_ptt_active => LiveTimers = {}

\* a _speak call returns in this step
SpeakReturnStep ==
    \E n \in DOMAIN nr_speaks : nr_speaks[n].at = "wake" /\ nr_speaks'[n].at = "done"

----------------------------------------------------------------------------
(* Properties of the session's timers and of its end *)

\* the handles of the interview-duration timer that are scheduled and not
\* cancelled
LiveInterviewTimers == {h \in DOMAIN interview_handles : interview_handles[h] = "live"}

\* C31: at most one interview-duration timer is live per session at any
\* time: each data-channel-open event arms the duration timer, and for any
\* number of such events no earlier duration timer is left live next to
\* the new one.
C31_OneInterviewTimer ==
    Cardinality(LiveInterviewTimers) <= 1

\* C32: after cleanup() has run, neither the interview-duration timer nor
\* the no-response timer is live and neither timeout handler runs later,
\* including when a speech synthesis, playback or turn generation of the
\* session was still in flight at the moment of teardown.
C32_NoTimerAfterCleanup ==
    nr_cleaned_up =>
        /\ LiveTimers = {}
        /\ LiveInterviewTimers = {}
        /\ ~late_timeout

----------------------------------------------------------------------------
(* Properties of the connection states, the recorders and the end of the  *)
(* sessions *)

\* session o's handler is called with the new connection state `state`
ConnChanged(o, state) == conn_state[o] # state /\ conn_state'[o] = state

\* session o's handler is called with a state that ends the connection
ConnEnded(o) == \E state \in {"failed", "closed"} : ConnChanged(o, state)

\* C33: when the peer connection's state becomes "failed" or "closed", the
\* session's room is removed from the registry and the session is cleaned up,
\* with its closed event set; a change to any other connection state leaves
\* the registry and the sessions as they are.
C33_EndedConnectionRemovesSession ==
    [][\A o \in SessionObjs :
         /\ ConnEnded(o) =>
              /\ room_session' = 0
              /\ sess'[o].cleaned_up
              /\ sess'[o].closed
         /\ (\E state \in ConnectionStates : ConnChanged(o, state) /\ ~removes_session(state)) =>
              /\ room_session' = room_session
              /\ sess' = sess]_vars

\* the receive loop of _session ends in this step
SignalingCloses == lc_pc = "recv" /\ lc_pc' \in {"wait_closed", "done"}

\* C34: when the peer connection's state becomes "connected" the closing of
\* the signaling connection is scheduled, and neither that change nor the end
\* of the receive loop alters the registry or any session: the session stays
\* registered with its timers and capture as they were, and _session, which
\* has a session, only returns once that session's closed event is set.
C34_ConnectedClosesSignalingOnly ==
    [][/\ \A o \in SessionObjs :
            ConnChanged(o, "connected") =>
                /\ ws_closing'
                /\ room_session' = room_session
                /\ sess' = sess
       /\ SignalingCloses =>
            /\ room_session' = room_session
            /\ sess' = sess
            /\ lc_session # 0 => lc_pc' = "wait_closed"
       /\ (lc_pc # "done" /\ lc_pc' = "done" /\ lc_session # 0) =>
            sess[lc_session].closed]_vars

\* the connected session's signaling connection was closed by the scheduled
\* task, and the session is registered, in use and waited for
C34_Witness ==
    \E o \in SessionObjs :
        /\ conn_state[o] = "connected"
        /\ ~ws_closing
        /\ lc_pc = "wait_closed" /\ lc_session = o
        /\ room_session = o
        /\ ~sess[o].cleaned_up /\ ~sess[o].closed
        /\ sess[o].dc = "open"
        /\ sess[o].interview_timer = "armed" /\ sess[o].ptt_timeout_timer = "armed"
        /\ sess[o].ptt_active
        /\ recorder[o] = "running"

\* the handles of either kind that are live
ArmedHandles(handles) == {h \in DOMAIN handles : handles[h] = "live"}

\* C35: the closed state is absorbing: once cleanup() has run the session
\* stays cleaned up, and no later step makes it capture audio again or arms
\* a no-response or interview-duration timer that was not live before.
C35_ClosedIsAbsorbing ==
    [][nr_cleaned_up =>
         /\ nr_cleaned_up'
         /\ ~nr_ptt_active'
         /\ ArmedHandles(nr_handles') \subseteq ArmedHandles(nr_handles)
         /\ ArmedHandles(interview_handles') \subseteq ArmedHandles(interview_handles)]_vars

\* C36: a removal requested by a session's own callback tears down only that
\* session: when session o's connection ends, no other session changes, and
\* a different session registered under the room id stays registered.
C36_RemovalSparesOtherSessions ==
    [][\A o \in SessionObjs :
         ConnEnded(o) =>
             /\ \A other \in SessionObjs \ {o} : sess'[other] = sess[other]
             /\ room_session \notin {0, o} => room_session' = room_session]_vars

\* C37: a recording started by a session is finalized by its teardown: once
\* the session is cleaned up its recorder is no longer running.
C37_RecorderStoppedByTeardown ==
    \A o \in SessionObjs : sess[o].cleaned_up => recorder[o] # "running"

\* C38: the interview-ended signal is sent at most once for a session,
\* whichever of the closing turn, the interview-duration timeout and the
\* no-response timeout end it.
C38_EndedSignalAtMostOnce == ended_signals <= 1

----------------------------------------------------------------------------
(* Properties of the answer tasks *)

\* C39: however the answer tasks interleave, the question counter never
\* exceeds max_questions, every AI_QUESTION carries a questionNumber that is
\* at most totalQuestions, and the closing turn is generated at most once.
C39_QuestionCountBounded ==
    /\ question_count <= max_questions
    /\ \A n \in sent_numbers : n <= max_questions
    /\ closings <= 1

----------------------------------------------------------------------------
(* Properties of the end of the sessions *)

\* C40: every session that enters the registry is eventually removed from
\* it and cleaned up, and a signaling thread that waits for its session's
\* closed event eventually ends.
C40_EverySessionEnds ==
    /\ \A o \in SessionObjs :
          (room_session = o) ~> (room_session # o /\ sess[o].cleaned_up)
    /\ (lc_pc = "wait_closed") ~> (lc_pc = "done")

====
